---- MODULE Spec2Model ----
(***************************************************************************)
(* The Thirteen / Big Two card game: the card order and the card text      *)
(* (Card.h, Card.cpp), the combination classifier, the combination         *)
(* comparator and the play validator (GameRules.h, GameRules.cpp), the     *)
(* hand (Hand.h, Hand.cpp), the game state (GameState.h, GameState.cpp)    *)
(* and the game itself (main.cpp): its command handlers, and Game::run     *)
(* with the input thread and the command queue.  Drawing is left out:      *)
(* needsRedraw, render() and the texts printed change nothing modelled.    *)
(*                                                                         *)
(* A card is a record [rank, suit] holding the integer values of the Rank  *)
(* and Suit enumerations; a std::vector<Card> is a sequence of cards; a     *)
(* std::string is a sequence of one-character strings.  Player and card    *)
(* indices keep the values they have in the code (they start at 0).        *)
(***************************************************************************)
EXTENDS Integers, Sequences, FiniteSets, TLC

VARIABLES
    cards,          \* validatePlay / classifier argument: the candidate play
    lastPlay,       \* validatePlay / comparator argument: the table's last play
    isFirstPlay,    \* validatePlay argument
    mustInclude3D,  \* validatePlay argument mustIncludeThreeOfDiamonds
    result,         \* what the last call returned
    pc,             \* "input": arguments being chosen; otherwise the call made
    cardStr,        \* Card::Card(const std::string&) argument
    players_,       \* GameState::players_: each player's type, hand, hasPassed_
    deck_,          \* GameState::deck_: the cards the deck holds, top card last
    currentPlayerIndex_,
    lastPlay_,
    lastPlayingPlayerIndex_,
    phase_,
    consecutivePasses_,
    firstPlayOfGame_,
    running,        \* Game::running
    windowIsOpen,   \* window.isOpen()
    commandQueue,   \* Game::commandQueue
    queueMutex,     \* Game::queueMutex: "free", or the thread that holds it
    mainPc,         \* where the thread that called Game::run() is
    inputPc,        \* where Game::inputThread is in inputLoop()
    line,           \* inputLoop's local variable line
    cin,            \* std::cin: the lines typed and not read yet
    cinClosed,      \* std::cin has reached its end
    linesTyped,     \* how many lines have been typed so far
    linesRead,      \* history: the non-empty lines std::getline returned
    handled         \* history: the commands given to handleCommand

\* Game::gameState
gameState == <<players_, deck_, currentPlayerIndex_, lastPlay_,
               lastPlayingPlayerIndex_, phase_, consecutivePasses_,
               firstPlayOfGame_>>

\* the two threads of Game::run, their shared members and std::cin
threads == <<running, windowIsOpen, commandQueue, queueMutex, mainPc, inputPc,
             line, cin, cinClosed, linesTyped, linesRead, handled>>

vars == <<cards, lastPlay, isFirstPlay, mustInclude3D, result, pc, cardStr,
          gameState, threads>>

----------------------------------------------------------------------------
(* Card.h: enum class Rank, enum class Suit *)

Three == 3
Four  == 4
Five  == 5
Six   == 6
Seven == 7
Eight == 8
Nine  == 9
Ten   == 10
Jack  == 11
Queen == 12
King  == 13
Ace   == 14
Two   == 15

Diamonds == 0
Clubs    == 1
Hearts   == 2
Spades   == 3

Rank == Three..Two
Suit == Diamonds..Spades

Card(r, s) == [rank |-> r, suit |-> s]

\* the 52 cards Deck::initializeDeck builds
AllCards == {Card(r, s) : r \in Rank, s \in Suit}

----------------------------------------------------------------------------
(* Card.cpp: comparison operators *)

CardEq(a, b) == a.rank = b.rank /\ a.suit = b.suit

CardNe(a, b) == ~CardEq(a, b)

\* operator< with the suits compared by <= : a card is below itself
CardLessOrEqualSuit(a, b) ==
    IF a.rank # b.rank THEN a.rank < b.rank ELSE a.suit <= b.suit

\* operator< with the suit compared first and the rank breaking ties
CardLessSuitFirst(a, b) ==
    IF a.suit # b.suit THEN a.suit < b.suit ELSE a.rank < b.rank

CardLess(a, b) ==
    IF a.rank # b.rank THEN a.rank < b.rank ELSE a.suit < b.suit

CardGreater(a, b) == CardLess(b, a)

CardLe(a, b) == ~CardLess(b, a)

CardGe(a, b) == ~CardLess(a, b)

----------------------------------------------------------------------------
(* Card.cpp: card text.  A call that may throw returns a record: threw is  *)
(* TRUE and what names the exception, or threw is FALSE and value holds    *)
(* the return value.                                                       *)

LowerCase == << "a", "b", "c", "d", "e", "f", "g", "h", "i", "j", "k", "l", "m",
                "n", "o", "p", "q", "r", "s", "t", "u", "v", "w", "x", "y", "z" >>
UpperCase == << "A", "B", "C", "D", "E", "F", "G", "H", "I", "J", "K", "L", "M",
                "N", "O", "P", "Q", "R", "S", "T", "U", "V", "W", "X", "Y", "Z" >>

\* std::toupper
toupper(c) ==
    IF \E i \in 1..Len(LowerCase) : LowerCase[i] = c
    THEN UpperCase[CHOOSE i \in 1..Len(LowerCase) : LowerCase[i] = c]
    ELSE c

\* throw std::invalid_argument(...)
InvalidArgument == [threw |-> TRUE, what |-> "invalid_argument"]

Returned(v) == [threw |-> FALSE, value |-> v]

charToRank(c) ==
    LET u == toupper(c)
    IN  CASE u = "3" -> Returned(Three)
          [] u = "4" -> Returned(Four)
          [] u = "5" -> Returned(Five)
          [] u = "6" -> Returned(Six)
          [] u = "7" -> Returned(Seven)
          [] u = "8" -> Returned(Eight)
          [] u = "9" -> Returned(Nine)
          [] u = "T" \/ u = "1" -> Returned(Ten)
          [] u = "J" -> Returned(Jack)
          [] u = "Q" -> Returned(Queen)
          [] u = "K" -> Returned(King)
          [] u = "A" -> Returned(Ace)
          [] u = "2" -> Returned(Two)
          [] OTHER   -> InvalidArgument

\* charToSuit taking every unknown character for a spade
charToSuitDefaultSpades(c) ==
    LET u == toupper(c)
    IN  CASE u = "D" -> Returned(Diamonds)
          [] u = "C" -> Returned(Clubs)
          [] u = "H" -> Returned(Hearts)
          [] OTHER   -> Returned(Spades)

charToSuit(c) ==
    LET u == toupper(c)
    IN  CASE u = "D" -> Returned(Diamonds)
          [] u = "C" -> Returned(Clubs)
          [] u = "H" -> Returned(Hearts)
          [] u = "S" -> Returned(Spades)
          [] OTHER   -> InvalidArgument

\* the default branch (throw) is not reached for a value of Rank
rankToChar(rank) ==
    CASE rank = Three -> "3"
      [] rank = Four  -> "4"
      [] rank = Five  -> "5"
      [] rank = Six   -> "6"
      [] rank = Seven -> "7"
      [] rank = Eight -> "8"
      [] rank = Nine  -> "9"
      [] rank = Ten   -> "T"
      [] rank = Jack  -> "J"
      [] rank = Queen -> "Q"
      [] rank = King  -> "K"
      [] rank = Ace   -> "A"
      [] rank = Two   -> "2"

\* the default branch (throw) is not reached for a value of Suit
suitToChar(suit) ==
    CASE suit = Diamonds -> "D"
      [] suit = Clubs    -> "C"
      [] suit = Hearts   -> "H"
      [] suit = Spades   -> "S"

\* Card::Card(const std::string& cardStr); suitPos counts from 0
CardFromString(str) ==
    IF Len(str) < 2 THEN InvalidArgument
    ELSE LET ten     == Len(str) >= 3 /\ SubSeq(str, 1, 2) = << "1", "0" >>
             rankStr == IF ten THEN << "1", "0" >> ELSE SubSeq(str, 1, 1)
             suitPos == IF ten THEN 2 ELSE 1
         IN  IF suitPos >= Len(str) THEN InvalidArgument
             ELSE LET r == charToRank(rankStr[1])
                  IN  IF r.threw THEN r
                      ELSE LET rank == IF rankStr = << "1", "0" >>
                                       THEN Ten ELSE r.value
                               s    == charToSuit(str[suitPos + 1])
                           IN  IF s.threw THEN s
                               ELSE Returned(Card(rank, s.value))

getRankChar(card) == rankToChar(card.rank)

getSuitChar(card) == suitToChar(card.suit)

\* Card::toString
toString(card) == << getRankChar(card), getSuitChar(card) >>

----------------------------------------------------------------------------
(* GameRules.h: PlayType, FiveCardType, PlayValidation *)

PlayType == {"Invalid", "Single", "Pair", "Triple", "FiveCard"}

FiveCardType ==
    {"None", "Straight", "Flush", "FullHouse", "FourOfAKind", "StraightFlush"}

\* PlayValidation(): the default-constructed verdict
PlayValidation ==
    [isValid |-> FALSE, playType |-> "Invalid", fiveCardType |-> "None",
     errorMessage |-> ""]

----------------------------------------------------------------------------
(* GameRules.cpp: helpers *)

\* std::sort with the comparator a.getRank() < b.getRank().  The order of
\* cards of equal rank is unspecified; every caller reads only getRank() of
\* the sorted cards, so one outcome (insertion after the equal ranks) stands
\* for all of them.
RECURSIVE InsertByRank(_, _)
InsertByRank(sorted, c) ==
    IF sorted = <<>> THEN <<c>>
    ELSE IF c.rank < Head(sorted).rank THEN <<c>> \o sorted
    ELSE <<Head(sorted)>> \o InsertByRank(Tail(sorted), c)

\* sortByRank returning the cards in the order it was given them
sortByRankAsGiven(cs) == cs

RECURSIVE sortByRank(_)
sortByRank(cs) ==
    IF cs = <<>> THEN <<>>
    ELSE InsertByRank(sortByRank(SubSeq(cs, 1, Len(cs) - 1)), cs[Len(cs)])

containsThreeOfDiamonds(cs) ==
    \E i \in 1..Len(cs) : CardEq(cs[i], Card(Three, Diamonds))

\* the empty-set guard of getHighestCard: std::runtime_error
getHighestCardThrows(cs) == cs = <<>>

\* the linear scan of getHighestCard over cards[1..]; highest starts as cards[0]
RECURSIVE HighestFrom(_, _, _)
HighestFrom(cs, i, highest) ==
    IF i > Len(cs) THEN highest
    ELSE HighestFrom(cs, i + 1,
                     IF CardGreater(cs[i], highest) THEN cs[i] ELSE highest)

\* getHighestCard taking the last card, as if the list were sorted
getHighestCardLast(cs) == cs[Len(cs)]

getHighestCard(cs) == HighestFrom(cs, 2, cs[1])

\* getFiveCardRank with Flush ranked above FullHouse
getFiveCardRankFlushHigh(type) ==
    CASE type = "Straight"      -> 1
      [] type = "FullHouse"     -> 2
      [] type = "Flush"         -> 3
      [] type = "FourOfAKind"   -> 4
      [] type = "StraightFlush" -> 5
      [] OTHER                  -> 0

getFiveCardRank(type) ==
    CASE type = "Straight"      -> 1
      [] type = "Flush"         -> 2
      [] type = "FullHouse"     -> 3
      [] type = "FourOfAKind"   -> 4
      [] type = "StraightFlush" -> 5
      [] OTHER                  -> 0

----------------------------------------------------------------------------
(* GameRules.cpp: the classifier *)

isSingle(cs) == Len(cs) = 1

isPair(cs) == Len(cs) = 2 /\ cs[1].rank = cs[2].rank

\* isTriple comparing only the first two cards
isTripleFirstTwo(cs) ==
    /\ Len(cs) = 3
    /\ cs[1].rank = cs[2].rank

isTriple(cs) ==
    /\ Len(cs) = 3
    /\ cs[1].rank = cs[2].rank
    /\ cs[2].rank = cs[3].rank

\* isStraight on a circular rank scale, where 3 follows 2
isStraightWrapping(cs) ==
    IF Len(cs) # 5 THEN FALSE
    ELSE \E lo \in Rank :
             {cs[i].rank : i \in 1..5}
                 = {((lo - Three + k) % 13) + Three : k \in 0..4}

isStraight(cs) ==
    IF Len(cs) # 5 THEN FALSE
    ELSE LET sorted == sortByRank(cs)
         IN  \A i \in 2..Len(sorted) : sorted[i].rank = sorted[i - 1].rank + 1

isFlush(cs) ==
    IF Len(cs) # 5 THEN FALSE
    ELSE \A i \in 2..Len(cs) : cs[i].suit = cs[1].suit

\* isFullHouse satisfied by three cards of one rank, whatever the other two
isFullHouseAnyThree(cs) ==
    IF Len(cs) # 5 THEN FALSE
    ELSE LET sorted == sortByRank(cs)
         IN  \E i \in 1..3 : /\ sorted[i].rank = sorted[i + 1].rank
                             /\ sorted[i + 1].rank = sorted[i + 2].rank

isFullHouse(cs) ==
    IF Len(cs) # 5 THEN FALSE
    ELSE LET sorted == sortByRank(cs)
             pattern1 == /\ sorted[1].rank = sorted[2].rank
                         /\ sorted[2].rank = sorted[3].rank
                         /\ sorted[4].rank = sorted[5].rank
             pattern2 == /\ sorted[1].rank = sorted[2].rank
                         /\ sorted[3].rank = sorted[4].rank
                         /\ sorted[4].rank = sorted[5].rank
         IN  pattern1 \/ pattern2

isFourOfAKind(cs) ==
    IF Len(cs) # 5 THEN FALSE
    ELSE LET sorted == sortByRank(cs)
             pattern1 == /\ sorted[1].rank = sorted[2].rank
                         /\ sorted[2].rank = sorted[3].rank
                         /\ sorted[3].rank = sorted[4].rank
             pattern2 == /\ sorted[2].rank = sorted[3].rank
                         /\ sorted[3].rank = sorted[4].rank
                         /\ sorted[4].rank = sorted[5].rank
         IN  pattern1 \/ pattern2

isStraightFlush(cs) == isStraight(cs) /\ isFlush(cs)

\* determineFiveCardType testing the weakest shapes first
determineFiveCardTypeWeakestFirst(cs) ==
    IF Len(cs) # 5 THEN "None"
    ELSE IF isStraight(cs) THEN "Straight"
    ELSE IF isFlush(cs) THEN "Flush"
    ELSE IF isFullHouse(cs) THEN "FullHouse"
    ELSE IF isFourOfAKind(cs) THEN "FourOfAKind"
    ELSE IF isStraightFlush(cs) THEN "StraightFlush"
    ELSE "None"

determineFiveCardType(cs) ==
    IF Len(cs) # 5 THEN "None"
    ELSE IF isStraightFlush(cs) THEN "StraightFlush"
    ELSE IF isFourOfAKind(cs) THEN "FourOfAKind"
    ELSE IF isFullHouse(cs) THEN "FullHouse"
    ELSE IF isFlush(cs) THEN "Flush"
    ELSE IF isStraight(cs) THEN "Straight"
    ELSE "None"

\* determinePlayType with the size of a triple tested by >= in place of ==
determinePlayTypeAtLeastThree(cs) ==
    LET size == Len(cs)
    IN  IF size = 1 THEN "Single"
        ELSE IF size = 2 /\ isPair(cs) THEN "Pair"
        ELSE IF size >= 3 /\ cs[1].rank = cs[2].rank /\ cs[2].rank = cs[3].rank
        THEN "Triple"
        ELSE IF size = 5 /\ determineFiveCardType(cs) # "None" THEN "FiveCard"
        ELSE "Invalid"

determinePlayType(cs) ==
    LET size == Len(cs)
    IN  IF size = 1 THEN "Single"
        ELSE IF size = 2 /\ isPair(cs) THEN "Pair"
        ELSE IF size = 3 /\ isTriple(cs) THEN "Triple"
        ELSE IF size = 5 /\ determineFiveCardType(cs) # "None" THEN "FiveCard"
        ELSE "Invalid"

----------------------------------------------------------------------------
(* GameRules.cpp: the comparator *)

singleBeats(newCard, lastCard) == CardGreater(newCard, lastCard)

pairBeats(newPair, lastPair) ==
    IF Len(newPair) # 2 \/ Len(lastPair) # 2 THEN FALSE
    ELSE CardGreater(getHighestCard(newPair), getHighestCard(lastPair))

tripleBeats(newTriple, lastTriple) ==
    IF Len(newTriple) # 3 \/ Len(lastTriple) # 3 THEN FALSE
    ELSE CardGreater(getHighestCard(newTriple), getHighestCard(lastTriple))

\* fiveCardBeats reaches getHighestCard only when the two sub-shape strengths
\* are equal; it throws there when one of the lists is empty
fiveCardBeatsThrows(newCards, lastCards) ==
    /\ getFiveCardRank(determineFiveCardType(newCards))
         = getFiveCardRank(determineFiveCardType(lastCards))
    /\ (getHighestCardThrows(newCards) \/ getHighestCardThrows(lastCards))

\* fiveCardBeats letting the new play win between equal sub-shapes
fiveCardBeatsOnEqualShape(newCards, lastCards) ==
    getFiveCardRank(determineFiveCardType(newCards))
        >= getFiveCardRank(determineFiveCardType(lastCards))

fiveCardBeats(newCards, lastCards) ==
    LET newRank  == getFiveCardRank(determineFiveCardType(newCards))
        lastRank == getFiveCardRank(determineFiveCardType(lastCards))
    IN  IF newRank > lastRank THEN TRUE
        ELSE IF newRank < lastRank THEN FALSE
        ELSE CardGreater(getHighestCard(newCards), getHighestCard(lastCards))

\* doesPlayBeat without its size check
doesPlayBeatUnsized(newPlay, lastCards) ==
    IF lastCards = <<>> THEN TRUE
    ELSE LET playType == determinePlayType(newPlay)
         IN  CASE playType = "Single"   -> singleBeats(newPlay[1], lastCards[1])
               [] playType = "Pair"     -> pairBeats(newPlay, lastCards)
               [] playType = "Triple"   -> tripleBeats(newPlay, lastCards)
               [] playType = "FiveCard" -> fiveCardBeats(newPlay, lastCards)
               [] OTHER                 -> FALSE

doesPlayBeat(newPlay, lastCards) ==
    IF lastCards = <<>> THEN TRUE
    ELSE IF Len(newPlay) # Len(lastCards) THEN FALSE
    ELSE LET playType == determinePlayType(newPlay)
         IN  CASE playType = "Single"   -> singleBeats(newPlay[1], lastCards[1])
               [] playType = "Pair"     -> pairBeats(newPlay, lastCards)
               [] playType = "Triple"   -> tripleBeats(newPlay, lastCards)
               [] playType = "FiveCard" -> fiveCardBeats(newPlay, lastCards)
               [] OTHER                 -> FALSE

\* doesPlayBeat signalling an error for a last play that is no combination
doesPlayBeatThrowsOnInvalidLast(newPlay, lastCards) ==
    /\ lastCards # <<>>
    /\ Len(newPlay) = Len(lastCards)
    /\ \/ determinePlayType(lastCards) = "Invalid"
       \/ /\ determinePlayType(newPlay) = "FiveCard"
          /\ fiveCardBeatsThrows(newPlay, lastCards)

\* doesPlayBeat propagates the exception of fiveCardBeats; pairBeats and
\* tripleBeats check both sizes before they call getHighestCard
doesPlayBeatThrows(newPlay, lastCards) ==
    /\ lastCards # <<>>
    /\ Len(newPlay) = Len(lastCards)
    /\ determinePlayType(newPlay) = "FiveCard"
    /\ fiveCardBeatsThrows(newPlay, lastCards)

----------------------------------------------------------------------------
(* GameRules.cpp: the validator *)

\* validatePlay reaches the call of doesPlayBeat (its last check)
validatePlayCompares(cs, last, first, must) ==
    /\ cs # <<>>
    /\ ~(must /\ ~containsThreeOfDiamonds(cs))
    /\ determinePlayType(cs) # "Invalid"
    /\ ~(determinePlayType(cs) = "FiveCard" /\ determineFiveCardType(cs) = "None")
    /\ ~(first \/ last = <<>>)
    /\ Len(cs) = Len(last)

validatePlayThrows(cs, last, first, must) ==
    validatePlayCompares(cs, last, first, must) /\ doesPlayBeatThrows(cs, last)

\* validatePlay skipping the comparison only when the last play is empty
validatePlayIgnoringFirstPlay(cs, last, first, must) ==
    LET playType == determinePlayType(cs)
        fiveType == IF playType = "FiveCard"
                    THEN determineFiveCardType(cs) ELSE "None"
        typed    == [PlayValidation EXCEPT !.playType = playType,
                                           !.fiveCardType = fiveType]
    IN  IF cs = <<>>
        THEN [PlayValidation EXCEPT !.errorMessage = "No cards selected"]
        ELSE IF must /\ ~containsThreeOfDiamonds(cs)
        THEN [PlayValidation EXCEPT
                 !.errorMessage = "First play must include 3 of Diamonds"]
        ELSE IF playType = "Invalid"
        THEN [typed EXCEPT !.errorMessage = "Invalid card combination"]
        ELSE IF last = <<>>
        THEN [typed EXCEPT !.isValid = TRUE]
        ELSE IF Len(cs) # Len(last)
        THEN [typed EXCEPT
                 !.errorMessage = "Must play same number of cards as last play"]
        ELSE IF ~doesPlayBeat(cs, last)
        THEN [typed EXCEPT
                 !.errorMessage = "Play does not beat the previous play"]
        ELSE [typed EXCEPT !.isValid = TRUE]

\* validatePlay classifying the candidate before it looks for the 3 of Diamonds
validatePlayTypeFirst(cs, last, first, must) ==
    LET playType == determinePlayType(cs)
        fiveType == IF playType = "FiveCard"
                    THEN determineFiveCardType(cs) ELSE "None"
        typed    == [PlayValidation EXCEPT !.playType = playType,
                                           !.fiveCardType = fiveType]
    IN  IF cs = <<>>
        THEN [PlayValidation EXCEPT !.errorMessage = "No cards selected"]
        ELSE IF playType = "Invalid"
        THEN [typed EXCEPT !.errorMessage = "Invalid card combination"]
        ELSE IF must /\ ~containsThreeOfDiamonds(cs)
        THEN [typed EXCEPT
                 !.errorMessage = "First play must include 3 of Diamonds"]
        ELSE IF first \/ last = <<>>
        THEN [typed EXCEPT !.isValid = TRUE]
        ELSE IF Len(cs) # Len(last)
        THEN [typed EXCEPT
                 !.errorMessage = "Must play same number of cards as last play"]
        ELSE IF ~doesPlayBeat(cs, last)
        THEN [typed EXCEPT
                 !.errorMessage = "Play does not beat the previous play"]
        ELSE [typed EXCEPT !.isValid = TRUE]

\* validatePlay leaving fiveCardType as the constructor set it
validatePlayWithoutFiveCardType(cs, last, first, must) ==
    LET playType == determinePlayType(cs)
        typed    == [PlayValidation EXCEPT !.playType = playType]
    IN  IF cs = <<>>
        THEN [PlayValidation EXCEPT !.errorMessage = "No cards selected"]
        ELSE IF must /\ ~containsThreeOfDiamonds(cs)
        THEN [PlayValidation EXCEPT
                 !.errorMessage = "First play must include 3 of Diamonds"]
        ELSE IF playType = "Invalid"
        THEN [typed EXCEPT !.errorMessage = "Invalid card combination"]
        ELSE IF first \/ last = <<>>
        THEN [typed EXCEPT !.isValid = TRUE]
        ELSE IF Len(cs) # Len(last)
        THEN [typed EXCEPT
                 !.errorMessage = "Must play same number of cards as last play"]
        ELSE IF ~doesPlayBeat(cs, last)
        THEN [typed EXCEPT
                 !.errorMessage = "Play does not beat the previous play"]
        ELSE [typed EXCEPT !.isValid = TRUE]

validatePlay(cs, last, first, must) ==
    LET playType == determinePlayType(cs)
        fiveType == IF playType = "FiveCard"
                    THEN determineFiveCardType(cs) ELSE "None"
        typed    == [PlayValidation EXCEPT !.playType = playType,
                                           !.fiveCardType = fiveType]
    IN  IF cs = <<>>
        THEN [PlayValidation EXCEPT !.errorMessage = "No cards selected"]
        ELSE IF must /\ ~containsThreeOfDiamonds(cs)
        THEN [PlayValidation EXCEPT
                 !.errorMessage = "First play must include 3 of Diamonds"]
        ELSE IF playType = "Invalid"
        THEN [typed EXCEPT !.errorMessage = "Invalid card combination"]
        ELSE IF playType = "FiveCard" /\ fiveType = "None"
        THEN [typed EXCEPT !.errorMessage = "Invalid five-card combination"]
        ELSE IF first \/ last = <<>>
        THEN [typed EXCEPT !.isValid = TRUE]
        ELSE IF Len(cs) # Len(last)
        THEN [typed EXCEPT
                 !.errorMessage = "Must play same number of cards as last play"]
        ELSE IF ~doesPlayBeat(cs, last)
        THEN [typed EXCEPT
                 !.errorMessage = "Play does not beat the previous play"]
        ELSE [typed EXCEPT !.isValid = TRUE]

----------------------------------------------------------------------------
(* Deck.cpp: the deck is the sequence of its cards, Deck::cards_; deal()   *)
(* takes the last one                                                      *)

\* Deck::initializeDeck: rank by rank, the four suits of each rank in order
initializeDeck ==
    [i \in 1..(Cardinality(Rank) * Cardinality(Suit)) |->
        Card(Three + ((i - 1) \div Cardinality(Suit)),
             Diamonds + ((i - 1) % Cardinality(Suit)))]

----------------------------------------------------------------------------
(* Hand.cpp: a hand is the sequence of its cards, Hand::cards_ *)

hasCard(hand, card) == \E i \in 1..Len(hand) : CardEq(hand[i], card)

hasCards(hand, cs) == \A i \in 1..Len(cs) : hasCard(hand, cs[i])

\* Hand::removeCard: std::find, then erase; removed is the return value
\* removeCard taking every card of the rank out of the hand
removeCardOfRank(hand, card) ==
    [removed |-> hasCard(hand, card),
     hand |-> SelectSeq(hand, LAMBDA c : c.rank # card.rank)]

removeCard(hand, card) ==
    IF hasCard(hand, card)
    THEN LET it == CHOOSE i \in 1..Len(hand) :
                       /\ CardEq(hand[i], card)
                       /\ \A j \in 1..(i - 1) : ~CardEq(hand[j], card)
         IN  [removed |-> TRUE,
              hand |-> SubSeq(hand, 1, it - 1) \o SubSeq(hand, it + 1, Len(hand))]
    ELSE [removed |-> FALSE, hand |-> hand]

\* the second loop of Hand::removeCards, which drops what removeCard returns
RECURSIVE RemoveEach(_, _, _)
RemoveEach(hand, cs, i) ==
    IF i > Len(cs) THEN hand
    ELSE RemoveEach(removeCard(hand, cs[i]).hand, cs, i + 1)

\* Hand::removeCards: removed is the return value, hand the hand afterwards
removeCards(hand, cs) ==
    IF ~hasCards(hand, cs)
    THEN [removed |-> FALSE, hand |-> hand]
    ELSE [removed |-> TRUE, hand |-> RemoveEach(hand, cs, 1)]

\* the loop of Hand::findCards; a string Card::Card throws on is skipped by
\* the catch clause
RECURSIVE FindEach(_, _, _, _)
FindEach(hand, cardStrings, i, found) ==
    IF i > Len(cardStrings) THEN found
    ELSE LET searchCard == CardFromString(cardStrings[i])
         IN  FindEach(hand, cardStrings, i + 1,
                      IF ~searchCard.threw /\ hasCard(hand, searchCard.value)
                      THEN Append(found, searchCard.value)
                      ELSE found)

findCards(hand, cardStrings) == FindEach(hand, cardStrings, 1, <<>>)

hasThreeOfDiamonds(hand) == hasCard(hand, Card(Three, Diamonds))

\* Hand::compareByRank
compareByRank(a, b) ==
    IF a.rank # b.rank THEN a.rank < b.rank ELSE a.suit < b.suit

\* std::sort(cards_.begin(), cards_.end(), compareByRank): cards that
\* compare equal are the same card, so the sorted sequence is unique
RECURSIVE SortByRankFrom(_, _, _)
SortByRankFrom(hand, i, sorted) ==
    IF i > Len(hand) THEN sorted
    ELSE LET c == hand[i]
             k == Cardinality({j \in 1..Len(sorted) :
                                  ~compareByRank(c, sorted[j])})
         IN  SortByRankFrom(hand, i + 1,
                 SubSeq(sorted, 1, k) \o <<c>> \o SubSeq(sorted, k + 1, Len(sorted)))

\* Hand::sort(SortOrder::ByRank)
sortHandByRank(hand) == SortByRankFrom(hand, 1, <<>>)

----------------------------------------------------------------------------
(* GameState.cpp.  A game state is a record of the members of GameState;   *)
(* a player is a record of Player's type_, hand_ and hasPassed_.           *)

Max(a, b) == IF a >= b THEN a ELSE b

Min(a, b) == IF a <= b THEN a ELSE b

\* GameState::GameState
NewGameState ==
    [players |-> <<>>,
     deck |-> initializeDeck,
     currentPlayerIndex |-> 0,
     lastPlay |-> <<>>,
     lastPlayingPlayerIndex |-> 0,
     phase |-> "NotStarted",
     consecutivePasses |-> 0,
     firstPlayOfGame |-> TRUE]

\* Player::Player
NewPlayer(type) == [type |-> type, hand |-> <<>>, hasPassed |-> FALSE]

initializePlayers(g, numPlayers, numHumans) ==
    LET players == Max(2, Min(4, numPlayers))
        humans  == Max(0, Min(numHumans, players))
    IN  [g EXCEPT !.players =
            [i \in 1..players |->
                NewPlayer(IF i - 1 < humans THEN "Human" ELSE "AI")]]

\* Deck::shuffle.  std::shuffle may leave the cards in any order; the
\* orders listed here are the card at place i moved to the place
\* (multiplier * i) modulo (size + 1), then the deck cut at `cut`.
shuffle(deck, multiplier, cut) ==
    [i \in 1..Len(deck) |->
        deck[((((multiplier * i) % (Len(deck) + 1)) - 1 + cut) % Len(deck)) + 1]]

\* GameState::dealCards: deal number i (from 0) takes the last card of the
\* deck and goes to player i % numPlayers; then every hand is sorted
dealCards(g) ==
    IF g.players = <<>> THEN g
    ELSE LET numPlayers     == Len(g.players)
             cardsPerPlayer == 52 \div numPlayers
             dealt          == cardsPerPlayer * numPlayers
             handOf(p)      ==
                 g.players[p + 1].hand \o
                     [k \in 1..cardsPerPlayer |->
                         g.deck[Len(g.deck) - (p + (k - 1) * numPlayers)]]
         IN  [g EXCEPT
                 !.players = [i \in 1..numPlayers |->
                     [g.players[i] EXCEPT !.hand = sortHandByRank(handOf(i - 1))]],
                 !.deck = SubSeq(g.deck, 1, Len(g.deck) - dealt)]

findStartingPlayer(g) ==
    IF \E i \in 1..Len(g.players) : hasThreeOfDiamonds(g.players[i].hand)
    THEN (CHOOSE i \in 1..Len(g.players) :
              /\ hasThreeOfDiamonds(g.players[i].hand)
              /\ \A j \in 1..(i - 1) : ~hasThreeOfDiamonds(g.players[j].hand)) - 1
    ELSE 0

\* GameState::startNewGame, with the order deck_.shuffle() left the deck in
startNewGame(g, multiplier, cut) ==
    LET shuffled == shuffle(initializeDeck, multiplier, cut)
        cleared  == [g EXCEPT
                        !.deck = shuffled,
                        !.players = [i \in 1..Len(g.players) |->
                            [g.players[i] EXCEPT !.hand = <<>>,
                                                 !.hasPassed = FALSE]]]
        dealt    == dealCards(cleared)
        starting == findStartingPlayer(dealt)
    IN  [dealt EXCEPT !.currentPlayerIndex = starting,
                      !.lastPlay = <<>>,
                      !.lastPlayingPlayerIndex = starting,
                      !.consecutivePasses = 0,
                      !.firstPlayOfGame = TRUE,
                      !.phase = "InProgress"]

resetPasses(g) == [g EXCEPT !.consecutivePasses = 0]

incrementPasses(g) == [g EXCEPT !.consecutivePasses = @ + 1]

setLastPlay(g, cs, playerIndex) ==
    resetPasses([g EXCEPT !.lastPlay = cs,
                          !.lastPlayingPlayerIndex = playerIndex])

resetAllPasses(g) ==
    [g EXCEPT !.players = [i \in 1..Len(g.players) |->
                              [g.players[i] EXCEPT !.hasPassed = FALSE]]]

\* clearLastPlay leaving the passed flags of the players set
clearLastPlayKeepingFlags(g) == resetPasses([g EXCEPT !.lastPlay = <<>>])

clearLastPlay(g) == resetPasses(resetAllPasses([g EXCEPT !.lastPlay = <<>>]))

nextTurn(g) ==
    [g EXCEPT !.currentPlayerIndex = (@ + 1) % Len(g.players)]

\* allOthersHavePassed waiting for the pass of the last playing player too
allOthersHavePassedAndLast(g) ==
    \A i \in 1..Len(g.players) : g.players[i].hasPassed

allOthersHavePassed(g) ==
    IF Len(g.players) <= 1 THEN TRUE
    ELSE LET passCount ==
                 Cardinality({i \in 0..(Len(g.players) - 1) :
                                 /\ i # g.lastPlayingPlayerIndex
                                 /\ g.players[i + 1].hasPassed})
         IN  passCount >= Len(g.players) - 1

\* setFirstPlayMade forgetting to clear the flag
setFirstPlayMadeKeepingFlag(g) == g

setFirstPlayMade(g) == [g EXCEPT !.firstPlayOfGame = FALSE]

\* Player::setHasPassed(true) of the current player
setHasPassed(g) ==
    [g EXCEPT !.players[g.currentPlayerIndex + 1].hasPassed = TRUE]

\* Player::hasWon of the current player
hasWon(g) == g.players[g.currentPlayerIndex + 1].hand = <<>>

----------------------------------------------------------------------------
(* main.cpp: the command handlers of Game, on the game state g *)

currentPlayer(g) == g.players[g.currentPlayerIndex + 1]

\* a pass of the current player, as the "pass" command and playAITurns do
\* it: setHasPassed(true), incrementPasses(), nextTurn(), then the round is
\* cleared when all others have passed
passTurn(g) ==
    LET moved == nextTurn(incrementPasses(setHasPassed(g)))
    IN  IF allOthersHavePassed(moved) THEN clearLastPlay(moved) ELSE moved

\* Game::playAITurns: every AI player passes until a human is to play
RECURSIVE playAITurns(_)
playAITurns(g) ==
    IF g.phase # "InProgress" THEN g
    ELSE IF currentPlayer(g).type = "Human" THEN g
    ELSE playAITurns(passTurn(g))

\* the "pass" branch of Game::handleCommand: the state afterwards and what
\* was printed
handlePass(g) ==
    IF currentPlayer(g).type = "Human"
    THEN [game |-> playAITurns(passTurn(g)), outcome |-> "You passed."]
    ELSE [game |-> g, outcome |-> "It's not your turn!"]

\* the game state once removeCards has taken `found` from the current
\* player's hand: the play is on the table and the first play is marked
playedCards(g, found) ==
    LET removal == removeCards(currentPlayer(g).hand, found)
        taken   == [g EXCEPT !.players[g.currentPlayerIndex + 1].hand =
                                 removal.hand]
        played  == setLastPlay(taken, found, g.currentPlayerIndex)
    IN  IF played.firstPlayOfGame THEN setFirstPlayMade(played) ELSE played

\* what Game::handlePlayCommand does once validatePlay accepted `found`:
\* removed is what removeCards returned
playCards(g, found) ==
    LET removal == removeCards(currentPlayer(g).hand, found)
        marked  == playedCards(g, found)
    IN  IF ~removal.removed
        THEN [game |-> g, outcome |-> "Error removing cards from hand.",
              removed |-> FALSE]
        ELSE IF hasWon(marked)
        THEN [game |-> [marked EXCEPT !.phase = "Finished"],
              outcome |-> "wins!", removed |-> TRUE]
        ELSE [game |-> playAITurns(nextTurn(marked)),
              outcome |-> "played", removed |-> TRUE]

\* Game::handlePlayCommand on the card strings of the command line: the
\* state afterwards, what was printed, whether validatePlay was called, the
\* arguments and the verdict of that call, what removeCards returned and
\* the size of the player's hand before and after
handlePlayCommand(g, cardStrs) ==
    LET hand   == currentPlayer(g).hand
        found  == findCards(hand, cardStrs)
        first  == g.lastPlay = <<>>
        must   == g.firstPlayOfGame
        quiet  == [game |-> g, outcome |-> "", called |-> FALSE,
                   cards |-> found,
                   isFirstPlay |-> first, mustInclude3D |-> must,
                   verdict |-> PlayValidation, removed |-> FALSE,
                   held |-> Len(hand), left |-> Len(hand)]
    IN  IF currentPlayer(g).type # "Human"
        THEN [quiet EXCEPT !.outcome = "It's not your turn!"]
        ELSE IF found = <<>>
        THEN [quiet EXCEPT !.outcome = "No valid cards found in hand."]
        ELSE IF Len(found) # Len(cardStrs)
        THEN [quiet EXCEPT !.outcome = "Some cards not found in hand."]
        ELSE IF validatePlayThrows(found, g.lastPlay, first, must)
        THEN [quiet EXCEPT !.outcome = "exception", !.called = TRUE]
        ELSE LET validation == validatePlay(found, g.lastPlay, first, must)
                 called     == [quiet EXCEPT !.called = TRUE,
                                             !.verdict = validation]
             IN  IF ~validation.isValid
                 THEN [called EXCEPT !.outcome = "Invalid play"]
                 ELSE LET done == playCards(g, found)
                      IN  [called EXCEPT
                              !.game = done.game,
                              !.outcome = done.outcome,
                              !.removed = done.removed,
                              !.left = Len(done.game.players[
                                           g.currentPlayerIndex + 1].hand)]

----------------------------------------------------------------------------
(* Inputs.  The callers hand the rules engine lists of distinct cards; the  *)
(* lists below are drawn from bounded parts of the 52-card deck, each set   *)
(* of cards in one fixed order that is sorted neither by rank nor by suit.  *)

\* longest list handed to the classifier and to the comparator
MaxCards == 5

\* the classifier's inputs come from the TallRanks highest ranks in all four
\* suits, or from all thirteen ranks in the WideSuits lowest suits
TallRanks == 6
WideSuits == 1

TallDeck == {c \in AllCards : c.rank > Two - TallRanks}
WideDeck == {c \in AllCards : c.suit < Diamonds + WideSuits}

\* position of a card in the order the classifier's inputs are listed in
DrawKey(c) == ((c.rank * 5) % 13) + 13 * ((c.suit * 3) % 4)

\* the comparator's and the validator's inputs come from the first cards of
\* this list, in the order of the list
SampleCards ==
    << Card(Six, Diamonds),   Card(Three, Spades), Card(Four, Diamonds),
       Card(Three, Diamonds), Card(Seven, Diamonds), Card(Three, Hearts),
       Card(Five, Diamonds),  Card(Three, Clubs),  Card(Four, Clubs),
       Card(Eight, Diamonds), Card(Four, Hearts),  Card(Two, Spades) >>

BeatDeckSize == 10
ValidateDeckSize == 8

\* longest list handed to the validator
MaxLen == 6

Mentioned(cs) == {cs[i] : i \in 1..Len(cs)}

SampleIndex(c) == CHOOSE i \in 1..Len(SampleCards) : SampleCards[i] = c

\* the sample cards that may follow the cards of cs
SampleAfter(cs, size) ==
    LET from == IF cs = <<>> THEN 0 ELSE SampleIndex(cs[Len(cs)])
    IN  {SampleCards[i] : i \in (from + 1)..size}

\* the cards of two players who play against each other: the new play is
\* drawn from the first DisjointDeckSize cards on the left, the last play
\* from those on the right
LeftCards ==
    << Card(Six, Diamonds), Card(Three, Clubs),  Card(Four, Diamonds),
       Card(Three, Hearts), Card(Seven, Diamonds), Card(Four, Clubs),
       Card(Five, Diamonds), Card(Three, Diamonds), Card(Nine, Diamonds),
       Card(Two, Diamonds) >>

RightCards ==
    << Card(Five, Hearts),  Card(Seven, Spades), Card(Four, Hearts),
       Card(Three, Spades), Card(Five, Clubs),   Card(Six, Spades),
       Card(Four, Spades),  Card(Five, Spades),  Card(Eight, Spades),
       Card(Two, Spades) >>

DisjointDeckSize == 9

\* the cards whose order is permuted: the candidate is made of the first
\* PermuteDeckSize cards on the left, the last play of those on the right
PermuteLeft ==
    << Card(Four, Diamonds), Card(Three, Hearts), Card(Three, Diamonds),
       Card(Four, Clubs),    Card(Three, Clubs),  Card(Five, Diamonds),
       Card(Six, Diamonds) >>

PermuteRight ==
    << Card(Five, Spades), Card(Three, Spades), Card(Seven, Spades),
       Card(Four, Spades), Card(Six, Spades),   Card(Five, Hearts),
       Card(Eight, Spades) >>

PermuteDeckSize == 5

IndexIn(deck, c) == CHOOSE i \in 1..Len(deck) : deck[i] = c

\* the first `size` cards of deck that may follow the cards of cs
DeckAfter(deck, cs, size) ==
    LET from == IF cs = <<>> THEN 0 ELSE IndexIn(deck, cs[Len(cs)])
    IN  {deck[i] : i \in (from + 1)..size}

\* the characters card strings are typed from: the digits, the letters of
\* the ranks and of the suits in both cases, and a letter that is neither
TextChars ==
    { "0", "1", "2", "3", "4", "5", "6", "7", "8", "9",
      "T", "J", "Q", "K", "A", "D", "C", "H", "S", "X",
      "t", "j", "q", "k", "a", "d", "c", "h", "s", "x" }

\* longest card string decoded
MaxText == 3

\* a hand that holds every card
FullHand == initializeDeck

\* arguments of initializePlayers: numPlayers from 1, numHumans from -1
MaxPlayersAsked == 5
MaxHumansAsked == 2

\* multipliers of the orders deck_.shuffle() is taken to leave, and the
\* number of cuts taken of each: the deck cut at 0, 1, ...
ShuffleMultipliers == 2
ShuffleCuts == 8

\* a play command names cards among the HandReach lowest of the current
\* player's hand, as toString prints them, and the 5 of Diamonds in lower
\* case, whoever holds it; it holds MaxTokens card strings at most
HandReach == 1
MaxTokens == 2

StrayTokens == { << "5", "d" >> }

TokensOffered(hand) ==
    {toString(hand[i]) : i \in 1..Min(HandReach, Len(hand))} \cup StrayTokens

CommandLines(hand) ==
    UNION {[1..n -> TokensOffered(hand)] : n \in 0..MaxTokens}

----------------------------------------------------------------------------
(* State machine: the arguments are chosen card by card, then one function *)
(* of the rules engine is called on them and its return value recorded.    *)

\* the game state as a record
TheGameState ==
    [players |-> players_,
     deck |-> deck_,
     currentPlayerIndex |-> currentPlayerIndex_,
     lastPlay |-> lastPlay_,
     lastPlayingPlayerIndex |-> lastPlayingPlayerIndex_,
     phase |-> phase_,
     consecutivePasses |-> consecutivePasses_,
     firstPlayOfGame |-> firstPlayOfGame_]

GameStateIs(g) ==
    /\ players_ = g.players
    /\ deck_ = g.deck
    /\ currentPlayerIndex_ = g.currentPlayerIndex
    /\ lastPlay_ = g.lastPlay
    /\ lastPlayingPlayerIndex_ = g.lastPlayingPlayerIndex
    /\ phase_ = g.phase
    /\ consecutivePasses_ = g.consecutivePasses
    /\ firstPlayOfGame_ = g.firstPlayOfGame

GameStateBecomes(g) ==
    /\ players_' = g.players
    /\ deck_' = g.deck
    /\ currentPlayerIndex_' = g.currentPlayerIndex
    /\ lastPlay_' = g.lastPlay
    /\ lastPlayingPlayerIndex_' = g.lastPlayingPlayerIndex
    /\ phase_' = g.phase
    /\ consecutivePasses_' = g.consecutivePasses
    /\ firstPlayOfGame_' = g.firstPlayOfGame

\* a line of text: its first word and the card texts that follow it
CommandLine(verb, args) == [verb |-> verb, args |-> args]

\* std::string line; the empty line
EmptyLine == CommandLine("", <<>>)

\* the most lines typed on std::cin during one run
MaxLines == 2

\* the lines typed on std::cin: Enter alone, "pass", "quit", "play 3d"
TypedLines ==
    { EmptyLine, CommandLine("pass", <<>>), CommandLine("quit", <<>>),
      CommandLine("play", << << "3", "d" >> >>) }

\* Game::Game(): running(true); Game::run() has not been called, nothing is
\* typed
GameConstructed ==
    /\ running = TRUE
    /\ windowIsOpen = TRUE
    /\ commandQueue = <<>>
    /\ queueMutex = "free"
    /\ mainPc = "constructed"
    /\ inputPc = "not started"
    /\ line = EmptyLine
    /\ cin = <<>>
    /\ cinClosed = FALSE
    /\ linesTyped = 0
    /\ linesRead = <<>>
    /\ handled = <<>>

Init ==
    /\ GameConstructed
    /\ cards = <<>>
    /\ lastPlay = <<>>
    /\ isFirstPlay = FALSE
    /\ mustInclude3D = FALSE
    /\ result = "none"
    /\ pc = "input"
    /\ cardStr = <<>>
    /\ GameStateIs(NewGameState)

\* an operand a, b or c of the card comparisons: any card, repeats allowed
PickCard ==
    /\ pc = "input"
    /\ Len(cards) < 3
    /\ \E c \in AllCards : cards' = Append(cards, c)
    /\ UNCHANGED <<lastPlay, isFirstPlay, mustInclude3D, result, pc>>
    /\ UNCHANGED <<cardStr, gameState>>
    /\ UNCHANGED threads

\* Card::operator==, !=, <, >, <=, >= on a = cards[1], b = cards[2], and
\* operator< along the chain a, b, c
Compare ==
    /\ pc = "input"
    /\ Len(cards) = 3
    /\ pc' = "compare"
    /\ result' = [eq |-> CardEq(cards[1], cards[2]),
                  ne |-> CardNe(cards[1], cards[2]),
                  lt |-> CardLess(cards[1], cards[2]),
                  gt |-> CardGreater(cards[1], cards[2]),
                  le |-> CardLe(cards[1], cards[2]),
                  ge |-> CardGe(cards[1], cards[2]),
                  ltBC |-> CardLess(cards[2], cards[3]),
                  ltAC |-> CardLess(cards[1], cards[3])]
    /\ UNCHANGED <<cards, lastPlay, isFirstPlay, mustInclude3D>>
    /\ UNCHANGED <<cardStr, gameState>>
    /\ UNCHANGED threads

\* one more card of the classifier's argument
DrawCard ==
    /\ pc = "input"
    /\ Len(cards) < MaxCards
    /\ \E c \in TallDeck \cup WideDeck :
           /\ cards # <<>> => DrawKey(cards[Len(cards)]) < DrawKey(c)
           /\ \/ Mentioned(cards) \cup {c} \subseteq TallDeck
              \/ Mentioned(cards) \cup {c} \subseteq WideDeck
           /\ cards' = Append(cards, c)
    /\ UNCHANGED <<lastPlay, isFirstPlay, mustInclude3D, result, pc>>
    /\ UNCHANGED <<cardStr, gameState>>
    /\ UNCHANGED threads

\* determinePlayType, determineFiveCardType and the five shape tests
Classify ==
    /\ pc = "input"
    /\ pc' = "classify"
    /\ result' = [playType      |-> determinePlayType(cards),
                  fiveCardType  |-> determineFiveCardType(cards),
                  straight      |-> isStraight(cards),
                  flush         |-> isFlush(cards),
                  fullHouse     |-> isFullHouse(cards),
                  fourOfAKind   |-> isFourOfAKind(cards),
                  straightFlush |-> isStraightFlush(cards)]
    /\ UNCHANGED <<cards, lastPlay, isFirstPlay, mustInclude3D>>
    /\ UNCHANGED <<cardStr, gameState>>
    /\ UNCHANGED threads

\* one more card of each of two plays of the same size
DealPlays ==
    /\ pc = "input"
    /\ Len(cards) < MaxCards
    /\ Len(cards) = Len(lastPlay)
    /\ \E c \in SampleAfter(cards, BeatDeckSize),
          d \in SampleAfter(lastPlay, BeatDeckSize) :
           /\ cards' = Append(cards, c)
           /\ lastPlay' = Append(lastPlay, d)
    /\ UNCHANGED <<isFirstPlay, mustInclude3D, result, pc>>
    /\ UNCHANGED <<cardStr, gameState>>
    /\ UNCHANGED threads

\* one more card of each of two plays of the same size, of two players
DealDisjointPlays ==
    /\ pc = "input"
    /\ Len(cards) < MaxCards
    /\ Len(cards) = Len(lastPlay)
    /\ \E c \in DeckAfter(LeftCards, cards, DisjointDeckSize),
          d \in DeckAfter(RightCards, lastPlay, DisjointDeckSize) :
           /\ cards' = Append(cards, c)
           /\ lastPlay' = Append(lastPlay, d)
    /\ UNCHANGED <<isFirstPlay, mustInclude3D, result, pc>>
    /\ UNCHANGED <<cardStr, gameState>>
    /\ UNCHANGED threads

\* one more card of the candidate or of the last play, of two players
DrawPlays ==
    /\ pc = "input"
    /\ \/ /\ Len(cards) < MaxCards
          /\ \E c \in DeckAfter(PermuteLeft, cards, PermuteDeckSize) :
                 cards' = Append(cards, c)
          /\ UNCHANGED lastPlay
       \/ /\ Len(lastPlay) < MaxCards
          /\ \E d \in DeckAfter(PermuteRight, lastPlay, PermuteDeckSize) :
                 lastPlay' = Append(lastPlay, d)
          /\ UNCHANGED cards
    /\ UNCHANGED <<isFirstPlay, mustInclude3D, result, pc>>
    /\ UNCHANGED <<cardStr, gameState>>
    /\ UNCHANGED threads

\* doesPlayBeat(cards, lastPlay)
DoesPlayBeat ==
    /\ pc = "input"
    /\ pc' = "doesPlayBeat"
    /\ result' = IF doesPlayBeatThrows(cards, lastPlay)
                 THEN [threw |-> TRUE]
                 ELSE [threw |-> FALSE, value |-> doesPlayBeat(cards, lastPlay)]
    /\ UNCHANGED <<cards, lastPlay, isFirstPlay, mustInclude3D>>
    /\ UNCHANGED <<cardStr, gameState>>
    /\ UNCHANGED threads

\* fiveCardBeats(cards, lastPlay)
FiveCardBeats ==
    /\ pc = "input"
    /\ pc' = "fiveCardBeats"
    /\ result' = IF fiveCardBeatsThrows(cards, lastPlay)
                 THEN [threw |-> TRUE]
                 ELSE [threw |-> FALSE, value |-> fiveCardBeats(cards, lastPlay)]
    /\ UNCHANGED <<cards, lastPlay, isFirstPlay, mustInclude3D>>
    /\ UNCHANGED <<cardStr, gameState>>
    /\ UNCHANGED threads

\* one more card of the candidate
AddCard ==
    /\ pc = "input"
    /\ Len(cards) < MaxLen
    /\ \E c \in SampleAfter(cards, ValidateDeckSize) : cards' = Append(cards, c)
    /\ UNCHANGED <<lastPlay, isFirstPlay, mustInclude3D, result, pc>>
    /\ UNCHANGED <<cardStr, gameState>>
    /\ UNCHANGED threads

\* one more card of the table's last play
AddLastPlay ==
    /\ pc = "input"
    /\ Len(lastPlay) < MaxLen
    /\ \E c \in SampleAfter(lastPlay, ValidateDeckSize) :
           lastPlay' = Append(lastPlay, c)
    /\ UNCHANGED <<cards, isFirstPlay, mustInclude3D, result, pc>>
    /\ UNCHANGED <<cardStr, gameState>>
    /\ UNCHANGED threads

\* validatePlay(cards, lastPlay, isFirstPlay, mustIncludeThreeOfDiamonds)
ValidatePlay ==
    /\ pc = "input"
    /\ pc' = "validatePlay"
    /\ \E first \in BOOLEAN, must \in BOOLEAN :
           /\ isFirstPlay' = first
           /\ mustInclude3D' = must
           /\ result' = IF validatePlayThrows(cards, lastPlay, first, must)
                        THEN [threw |-> TRUE]
                        ELSE [threw |-> FALSE,
                              compared |-> validatePlayCompares(cards, lastPlay,
                                                                first, must),
                              verdict  |-> validatePlay(cards, lastPlay,
                                                        first, must)]
    /\ UNCHANGED <<cards, lastPlay>>
    /\ UNCHANGED <<cardStr, gameState>>
    /\ UNCHANGED threads

\* one more character of the card string
TypeChar ==
    /\ pc = "input"
    /\ Len(cardStr) < MaxText
    /\ \E c \in TextChars : cardStr' = Append(cardStr, c)
    /\ UNCHANGED <<cards, lastPlay, isFirstPlay, mustInclude3D, result, pc,
                   gameState>>
    /\ UNCHANGED threads

\* Card(cardStr), and toString() of the card when one was built
DecodeCard ==
    /\ pc = "input"
    /\ pc' = "Card"
    /\ result' = LET decoded == CardFromString(cardStr)
                 IN  IF decoded.threw THEN decoded
                     ELSE [threw |-> FALSE, value |-> decoded.value,
                           text |-> toString(decoded.value)]
    /\ UNCHANGED <<cards, lastPlay, isFirstPlay, mustInclude3D, cardStr,
                   gameState>>
    /\ UNCHANGED threads

\* findCards({cardStr, "3D"}) on a hand that holds every card
FindCards ==
    /\ pc = "input"
    /\ pc' = "findCards"
    /\ result' = [found |-> findCards(FullHand,
                                      <<cardStr, toString(Card(Three, Diamonds))>>)]
    /\ UNCHANGED <<cards, lastPlay, isFirstPlay, mustInclude3D, cardStr,
                   gameState>>
    /\ UNCHANGED threads

\* gameState.initializePlayers(numPlayers, numHumans) on the new game state
InitializePlayers ==
    /\ phase_ = "NotStarted"
    /\ players_ = <<>>
    /\ \E numPlayers \in 1..MaxPlayersAsked, numHumans \in (-1)..MaxHumansAsked :
       \E g \in {initializePlayers(TheGameState, numPlayers, numHumans)} :
           GameStateBecomes(g)
    /\ UNCHANGED <<cards, lastPlay, isFirstPlay, mustInclude3D, result, pc,
                   cardStr>>
    /\ UNCHANGED threads

\* gameState.startNewGame()
StartNewGame ==
    /\ phase_ = "NotStarted"
    /\ players_ # <<>>
    /\ \E multiplier \in 1..ShuffleMultipliers, cut \in 0..(ShuffleCuts - 1) :
       \E g \in {startNewGame(TheGameState, multiplier, cut)} :
           GameStateBecomes(g)
    /\ pc' = "startNewGame"
    /\ UNCHANGED <<cards, lastPlay, isFirstPlay, mustInclude3D, result, cardStr>>
    /\ UNCHANGED threads

\* Game::Game: initializeTestGame() starts a game of one human and three AI
\* players
InitGame ==
    /\ GameConstructed
    /\ cards = <<>>
    /\ lastPlay = <<>>
    /\ isFirstPlay = FALSE
    /\ mustInclude3D = FALSE
    /\ result = "none"
    /\ pc = "input"
    /\ cardStr = <<>>
    /\ \E multiplier \in 1..ShuffleMultipliers,
          cut \in 0..(ShuffleCuts - 1) :
       \E g \in {startNewGame(initializePlayers(NewGameState, 4, 1),
                              multiplier, cut)} :
           GameStateIs(g)

\* Game::Game with a table of three or four players: initializeTestGame()
\* asking initializePlayers for three players or more, one of them human
InitTable ==
    /\ GameConstructed
    /\ cards = <<>>
    /\ lastPlay = <<>>
    /\ isFirstPlay = FALSE
    /\ mustInclude3D = FALSE
    /\ result = "none"
    /\ pc = "input"
    /\ cardStr = <<>>
    /\ \E numPlayers \in 3..MaxPlayersAsked,
          multiplier \in 1..ShuffleMultipliers,
          cut \in 0..(ShuffleCuts - 1) :
       \E g \in {startNewGame(initializePlayers(NewGameState, numPlayers, 1),
                              multiplier, cut)} :
           GameStateIs(g)

\* the play command counting a rejected play as a pass
HandlePlayCommandCountingPass ==
    \E cardStrs \in CommandLines(currentPlayer(TheGameState).hand) :
        \E done \in {handlePlayCommand(TheGameState, cardStrs)} :
            /\ GameStateBecomes(IF done.removed THEN done.game
                                ELSE incrementPasses(done.game))
            /\ pc' = "play"
            /\ result' = [outcome |-> done.outcome, called |-> done.called,
                          verdict |-> done.verdict, removed |-> done.removed,
                          held |-> done.held, left |-> done.left]
            /\ cards' = IF done.called THEN done.cards ELSE cards
            /\ lastPlay' = IF done.called THEN lastPlay_ ELSE lastPlay
            /\ isFirstPlay' = IF done.called THEN done.isFirstPlay
                              ELSE isFirstPlay
            /\ mustInclude3D' = IF done.called THEN done.mustInclude3D
                                ELSE mustInclude3D
            /\ UNCHANGED <<cardStr, threads>>

\* Game::handleCommand("play ...") = Game::handlePlayCommand
HandlePlayCommand ==
    \E cardStrs \in CommandLines(currentPlayer(TheGameState).hand) :
        \E done \in {handlePlayCommand(TheGameState, cardStrs)} :
            /\ GameStateBecomes(done.game)
            /\ pc' = "play"
            /\ result' = [outcome |-> done.outcome, called |-> done.called,
                          verdict |-> done.verdict, removed |-> done.removed,
                          held |-> done.held, left |-> done.left]
            /\ cards' = IF done.called THEN done.cards ELSE cards
            /\ lastPlay' = IF done.called THEN lastPlay_ ELSE lastPlay
            /\ isFirstPlay' = IF done.called THEN done.isFirstPlay
                              ELSE isFirstPlay
            /\ mustInclude3D' = IF done.called THEN done.mustInclude3D
                                ELSE mustInclude3D
            /\ UNCHANGED <<cardStr, threads>>

\* Game::handleCommand("pass")
HandlePass ==
    \E done \in {handlePass(TheGameState)} :
        /\ GameStateBecomes(done.game)
        /\ pc' = "pass"
        /\ result' = [outcome |-> done.outcome]
        /\ UNCHANGED <<cards, lastPlay, isFirstPlay, mustInclude3D, cardStr,
                       threads>>

----------------------------------------------------------------------------
(* main.cpp: Game::run, the input thread and the command queue *)

\* Game::handleCommand: what a command does to the game, and whether it
\* closes the window and clears running ("quit", "exit"); "help" and an
\* unknown command print a text only
handleCommand(g, command) ==
    CASE command.verb \in {"quit", "exit"} -> [game |-> g, quit |-> TRUE]
      [] command.verb = "pass" -> [game |-> handlePass(g).game, quit |-> FALSE]
      [] command.verb = "play" ->
             [game |-> handlePlayCommand(g, command.args).game, quit |-> FALSE]
      [] OTHER -> [game |-> g, quit |-> FALSE]

\* Game::run: std::thread inputThread(&Game::inputLoop, this)
StartInputThread ==
    /\ mainPc = "constructed"
    /\ mainPc' = "while"
    /\ inputPc' = "while"
    /\ UNCHANGED <<running, windowIsOpen, commandQueue, queueMutex, line, cin,
                   cinClosed, linesTyped, linesRead, handled>>

\* Game::run: while (window.isOpen() && running)
MainLoopTest ==
    /\ mainPc = "while"
    /\ mainPc' = IF windowIsOpen /\ running THEN "handleEvents" ELSE "cleanup"
    /\ UNCHANGED <<running, windowIsOpen, commandQueue, queueMutex, inputPc,
                   line, cin, cinClosed, linesTyped, linesRead, handled>>

\* Game::handleEvents: no event, or the window's Closed event or the Escape
\* key: window.close(); running = false
HandleEvents ==
    /\ mainPc = "handleEvents"
    /\ mainPc' = "processCommands"
    /\ \E closed \in BOOLEAN :
           /\ windowIsOpen' = (windowIsOpen /\ ~closed)
           /\ running' = (running /\ ~closed)
    /\ UNCHANGED <<commandQueue, queueMutex, inputPc, line, cin, cinClosed,
                   linesTyped, linesRead, handled>>

\* Game::processCommands: std::lock_guard<std::mutex> lock(queueMutex)
ProcessCommandsLock ==
    /\ mainPc = "processCommands"
    /\ queueMutex = "free"
    /\ queueMutex' = "main"
    /\ mainPc' = "drain"
    /\ UNCHANGED <<running, windowIsOpen, commandQueue, inputPc, line, cin,
                   cinClosed, linesTyped, linesRead, handled>>

\* Game::processCommands: one turn of while (!commandQueue.empty()): front,
\* pop, handleCommand(command)
ProcessCommand ==
    /\ mainPc = "drain"
    /\ commandQueue # <<>>
    /\ commandQueue' = Tail(commandQueue)
    /\ handled' = Append(handled, Head(commandQueue))
    /\ \E done \in {handleCommand(TheGameState, Head(commandQueue))} :
           /\ GameStateBecomes(done.game)
           /\ windowIsOpen' = (windowIsOpen /\ ~done.quit)
           /\ running' = (running /\ ~done.quit)
    /\ UNCHANGED <<queueMutex, mainPc, inputPc, line, cin, cinClosed,
                   linesTyped, linesRead>>

\* Game::processCommands: the queue is empty, the lock_guard is released;
\* Game::run goes on to render and to sleep, then to its loop test
ProcessCommandsUnlock ==
    /\ mainPc = "drain"
    /\ commandQueue = <<>>
    /\ queueMutex' = "free"
    /\ mainPc' = "while"
    /\ UNCHANGED <<running, windowIsOpen, commandQueue, inputPc, line, cin,
                   cinClosed, linesTyped, linesRead, handled>>

\* Game::run: // Cleanup: running = false
Cleanup ==
    /\ mainPc = "cleanup"
    /\ running' = FALSE
    /\ mainPc' = "join"
    /\ UNCHANGED <<windowIsOpen, commandQueue, queueMutex, inputPc, line, cin,
                   cinClosed, linesTyped, linesRead, handled>>

\* Game::run: inputThread.join() returns when inputLoop has returned
Join ==
    /\ mainPc = "join"
    /\ inputPc = "returned"
    /\ mainPc' = "returned"
    /\ UNCHANGED <<running, windowIsOpen, commandQueue, queueMutex, inputPc,
                   line, cin, cinClosed, linesTyped, linesRead, handled>>

\* Game::inputLoop: while (running)
InputLoopTest ==
    /\ inputPc = "while"
    /\ inputPc' = IF running THEN "getline" ELSE "returned"
    /\ UNCHANGED <<running, windowIsOpen, commandQueue, queueMutex, mainPc,
                   line, cin, cinClosed, linesTyped, linesRead, handled>>

\* Game::inputLoop: std::getline(std::cin, line) returns a line that was typed
GetLine ==
    /\ inputPc = "getline"
    /\ cin # <<>>
    /\ line' = Head(cin)
    /\ cin' = Tail(cin)
    /\ linesRead' = IF Head(cin) = EmptyLine THEN linesRead
                    ELSE Append(linesRead, Head(cin))
    /\ inputPc' = IF Head(cin) = EmptyLine THEN "while" ELSE "lock"
    /\ UNCHANGED <<running, windowIsOpen, commandQueue, queueMutex, mainPc,
                   cinClosed, linesTyped, handled>>

\* Game::inputLoop: std::getline fails at the end of std::cin:
\* running = false; break
GetLineFails ==
    /\ inputPc = "getline"
    /\ cin = <<>>
    /\ cinClosed
    /\ running' = FALSE
    /\ inputPc' = "returned"
    /\ UNCHANGED <<windowIsOpen, commandQueue, queueMutex, mainPc, line, cin,
                   cinClosed, linesTyped, linesRead, handled>>

\* Game::inputLoop: std::lock_guard<std::mutex> lock(queueMutex)
InputLock ==
    /\ inputPc = "lock"
    /\ queueMutex = "free"
    /\ queueMutex' = "input"
    /\ inputPc' = "push"
    /\ UNCHANGED <<running, windowIsOpen, commandQueue, mainPc, line, cin,
                   cinClosed, linesTyped, linesRead, handled>>

\* Game::inputLoop: commandQueue.push(line), the lock_guard is released
Push ==
    /\ inputPc = "push"
    /\ commandQueue' = Append(commandQueue, line)
    /\ queueMutex' = "free"
    /\ inputPc' = "while"
    /\ UNCHANGED <<running, windowIsOpen, mainPc, line, cin, cinClosed,
                   linesTyped,
                   linesRead, handled>>

\* the user types a line on std::cin
TypeLine ==
    /\ ~cinClosed
    /\ linesTyped < MaxLines
    /\ linesTyped' = linesTyped + 1
    /\ \E l \in TypedLines : cin' = Append(cin, l)
    /\ UNCHANGED <<running, windowIsOpen, commandQueue, queueMutex, mainPc,
                   inputPc, line, cinClosed, linesRead, handled>>

\* the user ends std::cin
CloseCin ==
    /\ ~cinClosed
    /\ cinClosed' = TRUE
    /\ UNCHANGED <<running, windowIsOpen, commandQueue, queueMutex, mainPc,
                   inputPc, line, cin, linesTyped, linesRead, handled>>

\* the steps of the thread that called Game::run()
MainThread ==
    /\ \/ StartInputThread \/ MainLoopTest \/ HandleEvents
       \/ ProcessCommandsLock \/ ProcessCommandsUnlock \/ Cleanup \/ Join
    /\ UNCHANGED <<cards, lastPlay, isFirstPlay, mustInclude3D, result, pc,
                   cardStr, gameState>>

\* the main thread handling one queued command
MainThreadCommand ==
    /\ ProcessCommand
    /\ UNCHANGED <<cards, lastPlay, isFirstPlay, mustInclude3D, result, pc,
                   cardStr>>

\* the step MainThreadCommand seen from the threads: it is the one step that
\* lengthens handled, and it can be taken whenever the main thread is in the
\* loop of processCommands with a command in the queue
CommandHandled ==
    /\ mainPc = "drain"
    /\ commandQueue # <<>>
    /\ handled' = Append(handled, Head(commandQueue))

\* the steps of Game::inputThread
InputThread ==
    /\ InputLoopTest \/ GetLine \/ GetLineFails \/ InputLock \/ Push
    /\ UNCHANGED <<cards, lastPlay, isFirstPlay, mustInclude3D, result, pc,
                   cardStr, gameState>>

\* what the user does at the terminal
Terminal ==
    /\ TypeLine \/ CloseCin
    /\ UNCHANGED <<cards, lastPlay, isFirstPlay, mustInclude3D, result, pc,
                   cardStr, gameState>>

NextOrder == PickCard \/ Compare
SpecOrder == Init /\ [][NextOrder]_vars

NextClassify == DrawCard \/ Classify
SpecClassify == Init /\ [][NextClassify]_vars

NextBeat == DealPlays \/ DoesPlayBeat \/ FiveCardBeats
SpecBeat == Init /\ [][NextBeat]_vars

NextValidate == AddCard \/ AddLastPlay \/ Classify \/ ValidatePlay
SpecValidate == Init /\ [][NextValidate]_vars

NextText == TypeChar \/ DecodeCard \/ FindCards
SpecText == Init /\ [][NextText]_vars

\* the game state from its construction to the start of a game
NextDeal == InitializePlayers \/ StartNewGame
SpecDeal == Init /\ [][NextDeal]_vars

\* the game, from the construction of Game on, command by command
NextGame == HandlePlayCommand \/ HandlePass
SpecGame == InitGame /\ [][NextGame]_vars

\* the comparator on two plays of any sizes
NextBeatDisjoint == DealDisjointPlays \/ DoesPlayBeat
SpecBeatDisjoint == Init /\ [][NextBeatDisjoint]_vars

NextPermute == DrawPlays \/ ValidatePlay
SpecPermute == Init /\ [][NextPermute]_vars

\* the same commands at a table of three or four players
SpecTable == InitTable /\ [][NextGame]_vars

\* Game::run with its input thread, any interleaving of the two threads
NextRun == MainThread \/ MainThreadCommand \/ InputThread \/ Terminal
SpecRun == InitGame /\ [][NextRun]_vars

\* the same, both threads being scheduled for as long as they can take a
\* step; nothing obliges the user to type a line or to end std::cin
SpecRunFair ==
    /\ InitGame
    /\ [][NextRun]_vars
    /\ WF_threads(MainThread)
    /\ WF_handled(CommandHandled)
    /\ WF_threads(InputThread)

NextBeatAnySize == AddCard \/ AddLastPlay \/ DoesPlayBeat
SpecBeatAnySize == Init /\ [][NextBeatAnySize]_vars

----------------------------------------------------------------------------
(* The card order *)

\* C3: card comparison is a strict total order: of a<b, a==b, a>b exactly one
\* holds; operator< is irreflexive, antisymmetric and transitive; <=, >=, !=
\* and > agree with < and ==, and == holds of identical cards only.
CardOrderIsStrictTotal ==
    pc = "compare" =>
        /\ \/ result.lt /\ ~result.eq /\ ~result.gt
           \/ ~result.lt /\ result.eq /\ ~result.gt
           \/ ~result.lt /\ ~result.eq /\ result.gt
        /\ result.eq = (cards[1] = cards[2])
        /\ cards[1] = cards[2] => ~result.lt
        /\ ~(result.lt /\ result.gt)
        /\ result.lt /\ result.ltBC => result.ltAC
        /\ result.le = (result.lt \/ result.eq)
        /\ result.ge = (result.gt \/ result.eq)
        /\ result.ne = ~result.eq

\* a chain a < b < c was compared, a and b of one rank
CardOrderCompared ==
    /\ pc = "compare"
    /\ result.lt /\ result.ltBC
    /\ cards[1].rank = cards[2].rank
    /\ cards[2].rank # cards[3].rank

\* the rank and suit scales of the game, lowest first
RankScale ==
    << Three, Four, Five, Six, Seven, Eight, Nine, Ten,
       Jack, Queen, King, Ace, Two >>

SuitScale == << Diamonds, Clubs, Hearts, Spades >>

ScalePos(scale, x) == CHOOSE i \in 1..Len(scale) : scale[i] = x

\* a is below b: by rank on the rank scale, by suit when the ranks are equal
BelowOnScales(a, b) ==
    \/ ScalePos(RankScale, a.rank) < ScalePos(RankScale, b.rank)
    \/ /\ a.rank = b.rank
       /\ ScalePos(SuitScale, a.suit) < ScalePos(SuitScale, b.suit)

\* C4: a < b iff the rank of a is below the rank of b on the scale
\* 3<4<5<6<7<8<9<10<J<Q<K<A<2, or the ranks are equal and the suit of a is
\* below the suit of b on the scale Diamonds<Clubs<Hearts<Spades; so
\* 2 of Diamonds > Ace of Spades > King of Spades.
CardLessFollowsScales ==
    pc = "compare" =>
        /\ result.lt = BelowOnScales(cards[1], cards[2])
        /\ result.ltBC = BelowOnScales(cards[2], cards[3])
        /\ cards = << Card(King, Spades), Card(Ace, Spades), Card(Two, Diamonds) >>
             => result.lt /\ result.ltBC /\ result.ltAC

\* King of Spades, Ace of Spades and 2 of Diamonds were compared
RankDominatesCompared ==
    /\ pc = "compare"
    /\ cards = << Card(King, Spades), Card(Ace, Spades), Card(Two, Diamonds) >>
    /\ result.ltBC

----------------------------------------------------------------------------
(* The classifier *)

RanksOf(cs) == {cs[i].rank : i \in 1..Len(cs)}

SuitsOf(cs) == {cs[i].suit : i \in 1..Len(cs)}

\* how many cards of cs have rank r
CountRank(cs, r) == Cardinality({i \in 1..Len(cs) : cs[i].rank = r})

\* the ranks are five consecutive values of the scale 3..2
FiveConsecutive(cs) ==
    \E k \in 1..(Len(RankScale) - 4) :
        RanksOf(cs) = {RankScale[j] : j \in k..(k + 4)}

OneSuit(cs) == Cardinality(SuitsOf(cs)) = 1

FourShareRank(cs) == \E r \in RanksOf(cs) : CountRank(cs, r) = 4

ThreeAndTwoShareRanks(cs) ==
    \E r \in RanksOf(cs) :
        /\ CountRank(cs, r) = 3
        /\ \E q \in RanksOf(cs) \ {r} : CountRank(cs, q) = 2

\* C5: for every five distinct cards determineFiveCardType returns
\* StraightFlush iff the ranks are consecutive and the suits all equal,
\* FourOfAKind iff four cards share a rank, FullHouse iff three share one rank
\* and two another, Flush iff the suits are equal and the ranks not
\* consecutive, Straight iff the ranks are consecutive and the suits not all
\* equal, and None otherwise.
FiveCardTypeIsShape ==
    pc = "classify" /\ Len(cards) = 5 =>
        /\ result.fiveCardType = "StraightFlush"
             <=> FiveConsecutive(cards) /\ OneSuit(cards)
        /\ result.fiveCardType = "FourOfAKind" <=> FourShareRank(cards)
        /\ result.fiveCardType = "FullHouse" <=> ThreeAndTwoShareRanks(cards)
        /\ result.fiveCardType = "Flush"
             <=> OneSuit(cards) /\ ~FiveConsecutive(cards)
        /\ result.fiveCardType = "Straight"
             <=> FiveConsecutive(cards) /\ ~OneSuit(cards)
        /\ result.fiveCardType = "None"
             <=> /\ ~FiveConsecutive(cards) /\ ~OneSuit(cards)
                 /\ ~FourShareRank(cards) /\ ~ThreeAndTwoShareRanks(cards)

\* five consecutive ranks of one suit were classified
StraightFlushClassified ==
    /\ pc = "classify"
    /\ Len(cards) = 5
    /\ FiveConsecutive(cards) /\ OneSuit(cards)
    /\ result.fiveCardType = "StraightFlush"

\* C6: isStraight holds of exactly the five-card sets whose ranks are five
\* consecutive values of the linear scale 3..2: K-A-2-3-4 and A-2-3-4-5 are
\* no straights, 10-J-Q-K-A and J-Q-K-A-2 are.
StraightIsLinear ==
    pc = "classify" /\ Len(cards) = 5 =>
        /\ result.straight = FiveConsecutive(cards)
        /\ RanksOf(cards) = {King, Ace, Two, Three, Four} => ~result.straight
        /\ RanksOf(cards) = {Ace, Two, Three, Four, Five} => ~result.straight
        /\ RanksOf(cards) = {Ten, Jack, Queen, King, Ace} => result.straight
        /\ RanksOf(cards) = {Jack, Queen, King, Ace, Two} => result.straight

\* K-A-2-3-4 was tested
WrapAroundTested ==
    /\ pc = "classify"
    /\ Len(cards) = 5
    /\ RanksOf(cards) = {King, Ace, Two, Three, Four}
    /\ ~result.straight

\* C7: determinePlayType returns Single for every list of size 1; for size 2,
\* Pair iff the two cards have the same rank and Invalid otherwise; for size
\* 3, Triple iff the three cards have the same rank and Invalid otherwise.
SmallPlayTypes ==
    pc = "classify" =>
        /\ Len(cards) = 1 => result.playType = "Single"
        /\ Len(cards) = 2 =>
             result.playType =
                 IF Cardinality(RanksOf(cards)) = 1 THEN "Pair" ELSE "Invalid"
        /\ Len(cards) = 3 =>
             result.playType =
                 IF Cardinality(RanksOf(cards)) = 1 THEN "Triple" ELSE "Invalid"

\* three cards, the first two of one rank and the third of another, were
\* classified
NearTripleClassified ==
    /\ pc = "classify"
    /\ Len(cards) = 3
    /\ cards[1].rank = cards[2].rank
    /\ cards[3].rank # cards[1].rank
    /\ result.playType = "Invalid"

\* C8: determinePlayType returns Invalid for every list whose size is not 1,
\* 2, 3 or 5, and validatePlay rejects every non-empty such candidate without
\* calling doesPlayBeat, whatever the last play and the flags.
SizeGate ==
    Len(cards) \notin {1, 2, 3, 5} =>
        /\ pc = "classify" => result.playType = "Invalid"
        /\ pc = "validatePlay" /\ cards # <<>> =>
             /\ ~result.threw
             /\ ~result.verdict.isValid
             /\ ~result.compared

\* a candidate of four cards of one rank was validated against a last play of
\* four cards
FourCardsValidated ==
    /\ pc = "validatePlay"
    /\ Len(cards) = 4
    /\ Cardinality(RanksOf(cards)) = 1
    /\ Len(lastPlay) = 4
    /\ ~isFirstPlay
    /\ ~result.verdict.isValid

----------------------------------------------------------------------------
(* The comparator *)

\* the five-card shape of a list of distinct cards, by what the cards are
ShapeOf(cs) ==
    IF Len(cs) # 5 THEN "None"
    ELSE IF FiveConsecutive(cs) /\ OneSuit(cs) THEN "StraightFlush"
    ELSE IF FourShareRank(cs) THEN "FourOfAKind"
    ELSE IF ThreeAndTwoShareRanks(cs) THEN "FullHouse"
    ELSE IF OneSuit(cs) THEN "Flush"
    ELSE IF FiveConsecutive(cs) THEN "Straight"
    ELSE "None"

\* Straight(1) < Flush(2) < FullHouse(3) < FourOfAKind(4) < StraightFlush(5)
ShapeStrength(shape) ==
    CHOOSE k \in 1..5 :
        << "Straight", "Flush", "FullHouse", "FourOfAKind",
           "StraightFlush" >>[k] = shape

\* C9: for two valid five-card combinations fiveCardBeats is decided first by
\* the strength of the sub-shape: a strictly stronger new play beats, a
\* strictly weaker one does not, whatever the cards.
StrongerShapeDecides ==
    pc = "fiveCardBeats" =>
        LET new  == ShapeOf(cards)
            last == ShapeOf(lastPlay)
        IN  new # "None" /\ last # "None" =>
                /\ ~result.threw
                /\ ShapeStrength(new) > ShapeStrength(last) => result.value
                /\ ShapeStrength(new) < ShapeStrength(last) => ~result.value

\* a full house with the higher top card was compared with a four of a kind
FullHouseMetFourOfAKind ==
    /\ pc = "fiveCardBeats"
    /\ ShapeOf(cards) = "FullHouse"
    /\ ShapeOf(lastPlay) = "FourOfAKind"
    /\ \E c \in Mentioned(cards) :
           \A d \in Mentioned(lastPlay) : BelowOnScales(d, c)
    /\ ~result.value

\* the card of cs that no card of cs is above
TopCard(cs) ==
    CHOOSE c \in Mentioned(cs) : \A d \in Mentioned(cs) : ~BelowOnScales(c, d)

\* two plays of the same size and the same valid shape
SameShape(a, b) ==
    /\ Len(a) = Len(b)
    /\ \/ Len(a) = 1
       \/ Len(a) \in {2, 3} /\ Cardinality(RanksOf(a)) = 1
                            /\ Cardinality(RanksOf(b)) = 1
       \/ Len(a) = 5 /\ LET shape == ShapeOf(a)
                         IN  shape # "None" /\ shape = ShapeOf(b)

\* C10: for two plays of the same size and shape doesPlayBeat(new, last) is
\* true iff the highest card of new, over all of its cards, is strictly above
\* the highest card of last; so doesPlayBeat(p, p) is false.
HighestCardDecides ==
    pc = "doesPlayBeat" /\ SameShape(cards, lastPlay) =>
        /\ ~result.threw
        /\ result.value = BelowOnScales(TopCard(lastPlay), TopCard(cards))
        /\ cards = lastPlay => ~result.value

\* two fours of a kind were compared, and the kicker of the new one, its
\* highest card, decided
KickerDecided ==
    /\ pc = "doesPlayBeat"
    /\ ShapeOf(cards) = "FourOfAKind"
    /\ ShapeOf(lastPlay) = "FourOfAKind"
    /\ CountRank(cards, TopCard(cards).rank) = 1
    /\ result.value

----------------------------------------------------------------------------
(* The validator *)

HasThreeOfDiamonds(cs) == Card(Three, Diamonds) \in Mentioned(cs)

\* C1: validatePlay accepts iff the candidate is non-empty, holds the 3 of
\* Diamonds when mustInclude3D, has a play type other than Invalid, and
\* isFirstPlay is true or lastPlay is empty or the sizes are equal and the
\* candidate beats lastPlay; when isFirstPlay is true or lastPlay is empty no
\* beat-comparison is made.
ValidatePlayAcceptsIff ==
    pc = "validatePlay" =>
        /\ ~result.threw
        /\ result.verdict.isValid <=>
             /\ cards # <<>>
             /\ ~mustInclude3D \/ HasThreeOfDiamonds(cards)
             /\ determinePlayType(cards) # "Invalid"
             /\ \/ isFirstPlay
                \/ lastPlay = <<>>
                \/ /\ Len(cards) = Len(lastPlay)
                   /\ doesPlayBeat(cards, lastPlay)
        /\ isFirstPlay \/ lastPlay = <<>> => ~result.compared

\* a first play was accepted on a last play it does not beat
FirstPlayAccepted ==
    /\ pc = "validatePlay"
    /\ isFirstPlay
    /\ lastPlay # <<>>
    /\ Len(cards) = Len(lastPlay)
    /\ ~doesPlayBeat(cards, lastPlay)
    /\ result.verdict.isValid

\* the reason of the first check that fails, in the order of the checks
FirstFailingCheck ==
    IF cards = <<>> THEN "No cards selected"
    ELSE IF mustInclude3D /\ ~HasThreeOfDiamonds(cards)
    THEN "First play must include 3 of Diamonds"
    ELSE IF determinePlayType(cards) = "Invalid"
    THEN "Invalid card combination"
    ELSE IF Len(cards) # Len(lastPlay)
    THEN "Must play same number of cards as last play"
    ELSE "Play does not beat the previous play"

\* C2: a rejection reports the reason of the first failing check in the order
\* empty candidate, 3 of Diamonds missing, invalid combination, size differs
\* from the last play, does not beat the last play.
RejectionNamesFirstFailure ==
    pc = "validatePlay" /\ ~result.threw /\ ~result.verdict.isValid =>
        /\ result.verdict.errorMessage = FirstFailingCheck
        /\ determinePlayType(cards) # "Invalid" /\ Len(cards) # Len(lastPlay)
             => result.verdict.errorMessage
                    # "Play does not beat the previous play"

\* a candidate that lacks the required 3 of Diamonds and is no valid
\* combination was rejected
TwoChecksFailed ==
    /\ pc = "validatePlay"
    /\ mustInclude3D
    /\ ~HasThreeOfDiamonds(cards)
    /\ Len(cards) > 1
    /\ determinePlayType(cards) = "Invalid"
    /\ result.verdict.errorMessage = "First play must include 3 of Diamonds"

----------------------------------------------------------------------------
(* The comparator on plays of different sizes *)

\* C11 as stated: doesPlayBeat returns false whenever the two plays have
\* different sizes, also when one of them is empty
DifferentSizesNeverBeat ==
    (pc = "doesPlayBeat" /\ Len(cards) # Len(lastPlay))
        => (~result.threw /\ result.value = FALSE)

\* C11, amended: on plays of different sizes doesPlayBeat returns false when
\* the last play is not empty (the new play may be), and true when the last
\* play is empty, whatever the size of the new play; it never throws there
DifferentSizesBeatOnlyEmptyTable ==
    (pc = "doesPlayBeat" /\ Len(cards) # Len(lastPlay))
        => (~result.threw /\ result.value = (lastPlay = <<>>))

\* a single card higher than the first card of a two-card last play was
\* compared with it and refused
SingleMetPair ==
    /\ pc = "doesPlayBeat"
    /\ Len(cards) = 1
    /\ Len(lastPlay) = 2
    /\ CardGreater(cards[1], lastPlay[1])
    /\ result.value = FALSE

----------------------------------------------------------------------------
(* The verdict *)

\* C12: every verdict of validatePlay is well formed: its errorMessage is
\* non-empty exactly when isValid is false; its playType is FiveCard exactly
\* when its fiveCardType is not None; and an accepted verdict carries
\* determinePlayType(cards), which is not Invalid, and for five cards
\* determineFiveCardType(cards)
VerdictWellFormed ==
    (pc = "validatePlay" /\ ~result.threw) =>
        LET v == result.verdict
        IN  /\ v \in [isValid : BOOLEAN, playType : PlayType,
                      fiveCardType : FiveCardType, errorMessage : STRING]
            /\ (v.errorMessage # "") <=> ~v.isValid
            /\ (v.playType = "FiveCard") <=> (v.fiveCardType # "None")
            /\ v.isValid =>
                   /\ v.playType = determinePlayType(cards)
                   /\ v.playType # "Invalid"
                   /\ Len(cards) = 5 =>
                          v.fiveCardType = determineFiveCardType(cards)

\* a straight was refused because it does not beat a straight flush: the
\* rejected verdict carries the shape and the sub-shape of the candidate
RejectedStraightKeepsShape ==
    /\ pc = "validatePlay"
    /\ ~result.threw
    /\ ~result.verdict.isValid
    /\ result.verdict.playType = "FiveCard"
    /\ result.verdict.fiveCardType = "Straight"
    /\ determineFiveCardType(lastPlay) = "StraightFlush"
    /\ result.verdict.errorMessage = "Play does not beat the previous play"

----------------------------------------------------------------------------
(* Exceptions of the validator *)

\* C13: validatePlay never throws: for every candidate, every last play
\* (empty or not, a combination or not) and both flags it returns a
\* verdict; the empty-list error of getHighestCard is not reached from it
ValidatePlayNeverThrows ==
    pc = "validatePlay" =>
        /\ ~result.threw
        /\ ~validatePlayThrows(cards, lastPlay, isFirstPlay, mustInclude3D)
        /\ result.compared =>
               ~(getHighestCardThrows(cards) \/ getHighestCardThrows(lastPlay))

\* a five-card candidate was compared with a last play of five cards that
\* is no combination: fiveCardBeats ran on it, and a verdict came back
InvalidLastPlayCompared ==
    /\ pc = "validatePlay"
    /\ ~result.threw
    /\ result.compared
    /\ determinePlayType(cards) = "FiveCard"
    /\ Len(lastPlay) = 5
    /\ determinePlayType(lastPlay) = "Invalid"
    /\ result.verdict.isValid

----------------------------------------------------------------------------
(* Card text *)

RankTokenChars == {"3", "4", "5", "6", "7", "8", "9", "J", "Q", "K", "A", "2"}

SuitChars == {"D", "C", "H", "S"}

\* a rank token 3-9, J, Q, K, A, 2 or 10, then a suit letter, in any case
ValidToken(t) ==
    \/ /\ Len(t) = 2
       /\ toupper(t[1]) \in RankTokenChars
       /\ toupper(t[2]) \in SuitChars
    \/ /\ Len(t) = 3
       /\ t[1] = "1"
       /\ t[2] = "0"
       /\ toupper(t[3]) \in SuitChars

\* the token in upper case, ten written "10"
CanonicalForm(t) == [i \in 1..Len(t) |-> toupper(t[i])]

\* C14 as stated: for every valid card token t, Card(t).toString() is the
\* canonical form of t: its rank token and its suit letter in upper case,
\* ten written "10"
CardTextRoundTrip ==
    (pc = "Card" /\ ValidToken(cardStr)) =>
        (~result.threw /\ result.text = CanonicalForm(cardStr))

\* the characters charToRank accepts
RankChars == RankTokenChars \cup {"T", "1"}

\* the character Card::Card reads the suit from: the one after the rank
\* token, which is "10" at the head of a string of three or more characters
\* and the first character otherwise
SuitCharOf(t) ==
    IF Len(t) >= 3 /\ t[1] = "1" /\ t[2] = "0" THEN t[3] ELSE t[2]

Malformed(t) ==
    \/ Len(t) < 2
    \/ toupper(t[1]) \notin RankChars
    \/ toupper(SuitCharOf(t)) \notin SuitChars

\* C15: decoding a card string that is shorter than two characters, or
\* whose rank character is none of 3-9, T, 1, J, Q, K, A, 2, or whose suit
\* character is none of D, C, H, S (in any case) fails with
\* invalid_argument and builds no card; findCards skips such a string and
\* goes on with the next one
MalformedTextRejected ==
    /\ (pc = "Card" /\ Malformed(cardStr)) =>
           result = [threw |-> TRUE, what |-> "invalid_argument"]
    /\ (pc = "findCards" /\ Malformed(cardStr)) =>
           result.found = <<Card(Three, Diamonds)>>

\* "10" and "10X" were decoded, and each was rejected for its suit character
TenWithoutSuitRejected ==
    /\ pc = "Card"
    /\ \/ cardStr = << "1", "0" >>
       \/ cardStr = << "1", "0", "X" >>
    /\ result.threw

----------------------------------------------------------------------------
(* The play command *)

\* validatePlay was called by the last play command
PlayValidated == pc = "play" /\ result.called

\* C16 as stated: the candidate the play command passes to validatePlay
\* never holds the same card twice, whatever the command line
CandidateHasNoDuplicates ==
    PlayValidated =>
        \A i \in 1..Len(cards), j \in 1..Len(cards) :
            i # j => ~CardEq(cards[i], cards[j])

\* C17: firstPlayOfGame_ is true when the game starts and stays true until
\* a play is accepted; every play validated while it is true is validated
\* with mustIncludeThreeOfDiamonds true (validatePlay is always handed the
\* flag); the play accepted while it is true holds the 3 of Diamonds and
\* clears it; and once false it is false for the rest of the game
FirstPlayHoldsThreeOfDiamonds ==
    /\ firstPlayOfGame_ = TRUE
    /\ [][LET validated == pc' = "play" /\ result'.called
              accepted  == pc' = "play" /\ result'.removed
          IN  /\ validated => mustInclude3D' = firstPlayOfGame_
              /\ (firstPlayOfGame_ /\ accepted) =>
                     (containsThreeOfDiamonds(cards') /\ ~firstPlayOfGame_')
              /\ (firstPlayOfGame_ /\ ~accepted) => firstPlayOfGame_'
              /\ ~firstPlayOfGame_ => ~firstPlayOfGame_']_vars

\* the first play of a game was accepted: it was validated with
\* mustIncludeThreeOfDiamonds true, it is the 3 of Diamonds alone, played by
\* a player who also held the 5 of Diamonds, and the flag is cleared
FirstPlayMade ==
    /\ pc = "play"
    /\ result.removed
    /\ mustInclude3D
    /\ cards = <<Card(Three, Diamonds)>>
    /\ hasCard(players_[1].hand, Card(Five, Diamonds))
    /\ ~firstPlayOfGame_

\* C19 as stated: when removeCards returns true every card of the list was
\* removed, so the hand is shorter by the length of the list; when it
\* returns false the hand is as it was
RemoveCardsAllOrNothing ==
    (PlayValidated /\ result.verdict.isValid) =>
        IF result.removed
        THEN result.left = result.held - Len(cards)
        ELSE result.left = result.held

----------------------------------------------------------------------------
(* The start of a game *)

\* C18 as stated: after startNewGame, for 2, 3 or 4 players and every
\* shuffle, the current player and the last playing player hold the 3 of
\* Diamonds
StartingPlayerHoldsThreeOfDiamonds ==
    phase_ = "InProgress" =>
        /\ Len(players_) \in 2..4
        /\ hasThreeOfDiamonds(players_[currentPlayerIndex_ + 1].hand)
        /\ hasThreeOfDiamonds(players_[lastPlayingPlayerIndex_ + 1].hand)

----------------------------------------------------------------------------
(* The sub-shapes of five cards *)

\* the sub-shapes determineFiveCardType tests after StraightFlush
SubShapes == {"Straight", "Flush", "FullHouse", "FourOfAKind"}

\* every order in which they can be tested
SubShapeOrders ==
    {order \in [1..Cardinality(SubShapes) -> SubShapes] :
        \A i, j \in DOMAIN order : i # j => order[i] # order[j]}

\* what determineFiveCardType returns when it tests StraightFlush first and
\* then the sub-shapes in `order`, given what each test returned
FiveCardTypeTestedIn(order, straightFlush, tested) ==
    IF straightFlush THEN "StraightFlush"
    ELSE IF \E i \in DOMAIN order : tested[order[i]]
    THEN order[CHOOSE i \in DOMAIN order :
                   /\ tested[order[i]]
                   /\ \A j \in 1..(i - 1) : ~tested[order[j]]]
    ELSE "None"

\* C20: for five distinct cards, isStraight and isFlush are both true
\* exactly when isStraightFlush is, and then determineFiveCardType returns
\* StraightFlush; apart from that pair no two of isStraight, isFlush,
\* isFullHouse and isFourOfAKind are true together; so determineFiveCardType
\* returns the same sub-shape in whatever order it tests the four after
\* StraightFlush
SubShapesExclusive ==
    (pc = "classify" /\ Len(cards) = 5) =>
        LET tested == [Straight    |-> result.straight,
                       Flush       |-> result.flush,
                       FullHouse   |-> result.fullHouse,
                       FourOfAKind |-> result.fourOfAKind]
        IN  /\ result.straightFlush <=> (result.straight /\ result.flush)
            /\ result.straightFlush => result.fiveCardType = "StraightFlush"
            /\ \A a, b \in SubShapes :
                   (a # b /\ tested[a] /\ tested[b]) =>
                       /\ {a, b} = {"Straight", "Flush"}
                       /\ result.straightFlush
            /\ \A order \in SubShapeOrders :
                   FiveCardTypeTestedIn(order, result.straightFlush, tested)
                       = result.fiveCardType

\* five cards tested both as a straight and as a flush, and as nothing
\* else, were classified as a straight flush
StraightAndFlushTogether ==
    /\ pc = "classify"
    /\ Len(cards) = 5
    /\ result.straight /\ result.flush
    /\ ~result.fullHouse /\ ~result.fourOfAKind
    /\ result.straightFlush
    /\ result.fiveCardType = "StraightFlush"

----------------------------------------------------------------------------
(* The game in progress *)

\* what the play command prints when it refuses a play
Rejections ==
    {"It's not your turn!", "No valid cards found in hand.",
     "Some cards not found in hand.", "Invalid play"}

\* C21: a play command refused because it is not the human's turn, because
\* no card or not every card was found in the hand, or because validatePlay
\* rejected the play, leaves every member of the game state as it was
RejectedPlayChangesNothing ==
    [][~(pc' = "play" /\ result'.outcome \in Rejections)]_gameState

\* a play of the human player was refused by validatePlay after an earlier
\* play had been accepted
PlayRefusedMidGame ==
    /\ pc = "play"
    /\ result.outcome = "Invalid play"
    /\ ~firstPlayOfGame_
    /\ phase_ = "InProgress"

\* the states in which playAITurns processes the pass of an AI player,
\* from the game state g on
RECURSIVE AIPassStates(_)
AIPassStates(g) ==
    IF g.phase # "InProgress" \/ currentPlayer(g).type = "Human" THEN <<>>
    ELSE <<g>> \o AIPassStates(passTurn(g))

\* the states in which a pass is processed while the "pass" command is
\* handled in the game state g
PassStatesOfPass(g) ==
    IF currentPlayer(g).type = "Human"
    THEN <<g>> \o AIPassStates(passTurn(g))
    ELSE <<>>

\* the same for the command "play" with the card strings cardStrs
PassStatesOfPlay(g, cardStrs) ==
    LET done == handlePlayCommand(g, cardStrs)
    IN  IF done.outcome = "played"
        THEN AIPassStates(nextTurn(playedCards(g, done.cards)))
        ELSE <<>>

\* every player of g other than the last playing player has passed
OthersAllPassed(g) ==
    \A i \in 0..(Len(g.players) - 1) :
        i # g.lastPlayingPlayerIndex => g.players[i + 1].hasPassed

\* the pass processed in the state g: once the flag is set, the pass
\* counted and the turn moved on, the round is cleared if every other
\* player has passed, and nothing else happens if not
RoundClearedAfterPass(g) ==
    LET moved == nextTurn(incrementPasses(setHasPassed(g)))
        after == passTurn(g)
    IN  IF OthersAllPassed(moved)
        THEN /\ after.lastPlay = <<>>
             /\ \A i \in 1..Len(after.players) : ~after.players[i].hasPassed
             /\ after.consecutivePasses = 0
             /\ after.currentPlayerIndex = moved.currentPlayerIndex
        ELSE after = moved

\* C22: after every pass processed by the next command, of the human or of
\* an AI player, the round is cleared exactly when every player other than
\* the last playing player has passed; and while the game waits for a
\* command, allOthersHavePassed() is false and consecutivePasses_ is less
\* than the number of players
RoundClearing ==
    pc \in {"input", "play", "pass"} =>
        /\ \A i \in 1..Len(PassStatesOfPass(TheGameState)) :
               RoundClearedAfterPass(PassStatesOfPass(TheGameState)[i])
        /\ \A cardStrs \in CommandLines(currentPlayer(TheGameState).hand) :
               LET states == PassStatesOfPlay(TheGameState, cardStrs)
               IN  \A i \in 1..Len(states) : RoundClearedAfterPass(states[i])
        /\ ~allOthersHavePassed(TheGameState)
        /\ consecutivePasses_ < Len(players_)

\* an accepted play of the human player was followed by the passes of the
\* three AI players, and the round was cleared
RoundClearedAfterPlay ==
    /\ pc = "play"
    /\ result.outcome = "played"
    /\ lastPlay_ = <<>>
    /\ cards # <<>>
    /\ lastPlayingPlayerIndex_ = currentPlayerIndex_
    /\ \A i \in 1..Len(players_) : ~players_[i].hasPassed
    /\ consecutivePasses_ = 0

----------------------------------------------------------------------------
(* doesPlayBeat as an order *)

\* the cards of the set S as a list, in the order they have in deck
RECURSIVE ListIn(_, _)
ListIn(deck, S) ==
    IF S = {} THEN <<>>
    ELSE LET last == CHOOSE c \in S :
                         \A d \in S : IndexIn(deck, d) <= IndexIn(deck, c)
         IN  Append(ListIn(deck, S \ {last}), last)

\* the valid plays made of the first DisjointDeckSize cards of deck
ValidPlaysOf(deck) ==
    {play \in {ListIn(deck, S) :
                  S \in SUBSET {deck[i] : i \in 1..DisjointDeckSize}} :
        Len(play) <= MaxCards /\ determinePlayType(play) # "Invalid"}

\* every valid play made of the new player's cards or of the last player's
ValidThirdPlays == ValidPlaysOf(LeftCards) \cup ValidPlaysOf(RightCards)

\* C23: of two valid plays of the same size that share no card exactly one
\* beats the other; and when the new play beats the last play it beats
\* every valid play of that size that the last play beats
BeatIsStrictOrder ==
    (/\ pc = "doesPlayBeat"
     /\ Len(cards) = Len(lastPlay)
     /\ determinePlayType(cards) # "Invalid"
     /\ determinePlayType(lastPlay) # "Invalid") =>
        /\ ~result.threw
        /\ Mentioned(cards) \cap Mentioned(lastPlay) = {} =>
               (result.value <=> ~doesPlayBeat(lastPlay, cards))
        /\ result.value =>
               \A play \in ValidThirdPlays :
                   (Len(play) = Len(cards) /\ doesPlayBeat(lastPlay, play))
                       => doesPlayBeat(cards, play)

\* two flushes of different cards met, and the one with the higher top card
\* won; it also beats a straight that the other beats
FlushBeatFlush ==
    /\ pc = "doesPlayBeat"
    /\ ShapeOf(cards) = "Flush"
    /\ ShapeOf(lastPlay) = "Flush"
    /\ Mentioned(cards) \cap Mentioned(lastPlay) = {}
    /\ result.value
    /\ ~doesPlayBeat(lastPlay, cards)
    /\ \E play \in ValidThirdPlays :
           /\ ShapeOf(play) = "Straight"
           /\ doesPlayBeat(lastPlay, play)
           /\ doesPlayBeat(cards, play)

----------------------------------------------------------------------------
(* The order of the cards in a list *)

\* the permutations of 1..n, for every length of list
Orders ==
    [n \in 0..MaxCards |->
        {p \in [1..n -> 1..n] : \A i, j \in 1..n : i # j => p[i] # p[j]}]

\* among them the rotations and the reversal
Turns ==
    [n \in 0..MaxCards |->
        {p \in Orders[n] :
            \/ \E k \in 0..(n - 1) : \A i \in 1..n : p[i] = ((i - 1 + k) % n) + 1
            \/ \A i \in 1..n : p[i] = n + 1 - i}]

\* the list cs with its cards in the order p
Permuted(cs, p) == [i \in 1..Len(cs) |-> cs[p[i]]]

\* what the rules engine answers for the candidate cs and the last play
\* last, with the flags of the call
Answers(cs, last) ==
    [playType      |-> determinePlayType(cs),
     fiveCardType  |-> determineFiveCardType(cs),
     lastType      |-> determinePlayType(last),
     lastFiveType  |-> determineFiveCardType(last),
     beats         |-> IF doesPlayBeatThrows(cs, last) THEN "throws"
                       ELSE IF doesPlayBeat(cs, last) THEN "true" ELSE "false",
     threw         |-> validatePlayThrows(cs, last, isFirstPlay, mustInclude3D),
     verdict       |-> IF validatePlayThrows(cs, last, isFirstPlay, mustInclude3D)
                       THEN PlayValidation
                       ELSE validatePlay(cs, last, isFirstPlay, mustInclude3D)]

\* C24: the cards of the candidate in any other order, the cards of the
\* last play in any other order, or both lists turned or reversed, give the
\* same determinePlayType, determineFiveCardType and doesPlayBeat and the
\* same verdict of validatePlay in every field
OrderIndependent ==
    pc = "validatePlay" =>
        \A given \in {Answers(cards, lastPlay)} :
            /\ given.threw = result.threw
            /\ ~result.threw => given.verdict = result.verdict
            /\ \A p \in Orders[Len(cards)] :
                   Answers(Permuted(cards, p), lastPlay) = given
            /\ \A q \in Orders[Len(lastPlay)] :
                   Answers(cards, Permuted(lastPlay, q)) = given
            /\ \A p \in Turns[Len(cards)], q \in Turns[Len(lastPlay)] :
                   Answers(Permuted(cards, p), Permuted(lastPlay, q)) = given

\* a full house that is not in rank order was held against a straight
\* flush that is not in rank order either, and lost
UnsortedFullHouseAgainstStraightFlush ==
    /\ pc = "validatePlay"
    /\ ~result.threw
    /\ result.verdict.fiveCardType = "FullHouse"
    /\ result.verdict.errorMessage = "Play does not beat the previous play"
    /\ determineFiveCardType(lastPlay) = "StraightFlush"
    /\ cards # sortByRank(cards)
    /\ lastPlay # sortByRank(lastPlay)

----------------------------------------------------------------------------
(* The cards of a game *)

\* the cards held by the players and left in the deck, one list after the
\* other
RECURSIVE HandsFrom(_)
HandsFrom(i) ==
    IF i > Len(players_) THEN deck_
    ELSE players_[i].hand \o HandsFrom(i + 1)

\* no card is twice in a hand, in two hands, or in a hand and in the deck
NoCardTwice ==
    Cardinality(Mentioned(HandsFrom(1))) = Len(HandsFrom(1))

\* C25: after startNewGame every player holds 52 / numPlayers cards,
\* rounded down; in every state reached by play and pass commands no card
\* is twice in a hand, in two hands, or in a hand and in the deck; and a
\* hand changes only by losing cards of a play of its owner that was
\* accepted
CardConservation ==
    /\ \A i \in 1..Len(players_) :
           Len(players_[i].hand) = Cardinality(Mentioned(FullHand)) \div Len(players_)
    /\ []NoCardTwice
    /\ [][\A i \in 1..Len(players_) :
              players_'[i].hand # players_[i].hand =>
                  /\ pc' = "play"
                  /\ result'.removed
                  /\ i = currentPlayerIndex_ + 1
                  /\ Len(players_'[i].hand) < Len(players_[i].hand)
                  /\ Mentioned(players_'[i].hand) \subseteq
                         Mentioned(players_[i].hand)
                  /\ Mentioned(players_[i].hand) \ Mentioned(players_'[i].hand)
                         \subseteq Mentioned(cards')]_players_

\* at a table of three players, where one card stays in the deck, the
\* human player has played a card and holds sixteen
PlayedAtTableOfThree ==
    /\ Len(players_) = 3
    /\ Len(deck_) = 1
    /\ pc = "play"
    /\ result.removed
    /\ Len(players_[1].hand) = 16
    /\ Len(players_[2].hand) = 17

----------------------------------------------------------------------------
(* Whose turn it is while the game waits for a command *)

\* C26 as stated: while the game is in progress and waits for a command
\* the current player is the human player, and no play or pass command is
\* refused because it is not the human's turn
HumanToPlayWhenWaiting ==
    /\ phase_ = "InProgress" => currentPlayer(TheGameState).type = "Human"
    /\ pc \in {"play", "pass"} => result.outcome # "It's not your turn!"

\* C27: while the game is in progress, waits for a command and the human
\* player is to play, the last play is empty; so validatePlay is called
\* with isFirstPlay true and never rejects a play of the running game for
\* its size or for not beating the last play
TableEmptyForHuman ==
    /\ (phase_ = "InProgress" /\ currentPlayer(TheGameState).type = "Human")
           => lastPlay_ = <<>>
    /\ (pc = "play" /\ result.called) =>
           /\ isFirstPlay
           /\ lastPlay = <<>>
           /\ result.verdict.errorMessage \notin
                  {"Must play same number of cards as last play",
                   "Play does not beat the previous play"}

\* a second play of the human player was accepted: the AI players passed
\* after it, the round was cleared and the human player is to play again
SecondPlayOnEmptyTable ==
    /\ pc = "play"
    /\ result.outcome = "played"
    /\ isFirstPlay
    /\ ~mustInclude3D
    /\ phase_ = "InProgress"
    /\ currentPlayer(TheGameState).type = "Human"
    /\ lastPlay_ = <<>>

----------------------------------------------------------------------------
(* The end of a game *)

\* C28 as stated: the phase becomes Finished exactly when an accepted play
\* empties the hand of its player, and from then on no play or pass command
\* changes a hand, the last play, the current player index, a passed flag
\* or consecutivePasses_
FinishedIsAbsorbing ==
    [][/\ (phase_ # "Finished" /\ phase_' = "Finished")
             <=> (pc' = "play" /\ result'.removed /\ result'.left = 0)
       /\ phase_ = "Finished" =>
              /\ players_' = players_
              /\ lastPlay_' = lastPlay_
              /\ currentPlayerIndex_' = currentPlayerIndex_
              /\ consecutivePasses_' = consecutivePasses_]_gameState

----------------------------------------------------------------------------
(* The command queue between the input thread and the main loop *)

\* the sequence a is the beginning of the sequence b
IsPrefix(a, b) == Len(a) <= Len(b) /\ SubSeq(b, 1, Len(a)) = a

\* C29: every non-empty line inputLoop has read is handled by handleCommand
\* exactly once and in the order read: the commands handled are at all times
\* the beginning of the lines read, and they are all of them once Game::run
\* has returned; a thread that reads or changes commandQueue holds queueMutex
CommandsDelivered ==
    /\ IsPrefix(handled, linesRead)
    /\ mainPc = "returned" => handled = linesRead
    /\ mainPc = "drain" => queueMutex = "main"
    /\ inputPc = "push" => queueMutex = "input"

----------------------------------------------------------------------------
(* The end of Game::run *)

\* C30: once a quit or exit command has been handled, or the window has been
\* closed, Game::run returns: the main loop ends and the input thread is
\* joined, whether or not anything more arrives on std::cin
ShutdownTerminates == (~windowIsOpen) ~> (mainPc = "returned")

====
